---------------------------- MODULE Spec2Model ----------------------------
(***************************************************************************)
(* Model of the parallel vertex welder of TriangleMeshPWeld:                *)
(* merge_vertices_forward, merge_vertices_forward_async and reduce          *)
(* (src/cpp/TriangleMeshPWeld.cpp).                                         *)
(*                                                                         *)
(* One welding call is one behaviour.  The OpenMP team is a set of threads, *)
(* each with its own program counter; every access to shared memory         *)
(* (remainingSmallerFinalsVec, cp_vec, should_continue) is one step, and    *)
(* the steps of different threads interleave freely.  A parallel-for hands  *)
(* its iterations to the threads in any way in which each thread runs its   *)
(* own iterations in ascending order (every static or dynamic schedule).    *)
(* Positions are points with integer coordinates; centroid positions are    *)
(* exact fractions (a numerator vector over a denominator).                 *)
(***************************************************************************)
EXTENDS Integers, Sequences, FiniteSets, TLC

\* ------------------------------------------------------------------ bounds
NumVertices == 3
NumThreads == 2
MaxCoord == 2
MaxEps == 1

\* Number of vertices of the mesh a command-line program loads.
NumMeshVertices == 4

\* ------------------------------------------------------- program constants
ints_per_cache_line == 16

\* The constants of find-eps.cpp.  Lengths are counted in ticks, chosen so that
\* every midpoint the binary search forms is a whole number of ticks: the step
\* of the linear search is 4 times EPSILON_MIN_RANGE (1e5 times in the source)
\* and the cap is 4 steps (1000 in the source).
EPSILON_STEP_SIZE == 8
EPSILON_MIN_RANGE == 2
max_epsilon_searched == 32
\* Rates are exact fractions.  The tolerance is scaled with the mesh: on the
\* meshes of NumMeshVertices vertices two rates one vertex apart lie within it
\* and two rates two vertices apart do not, as with 1e-5 on a mesh of more
\* than 100000 vertices.
REDUCTION_RATE_MIN_ERROR == [num |-> 3, den |-> 10]

Vertex == 0 .. (NumVertices - 1)
Thread == 0 .. (NumThreads - 1)
Points == { <<x, 0, 0>> : x \in 0 .. MaxCoord }
EpsValues == 0 .. MaxEps
\* FORWARD = 1, FORWARD_ASYNC = 2 (enum Version of main.cpp)
Versions == {1, 2}
\* The triangle list of the input mesh: every id is a valid vertex id.
InputTriangles ==
    << <<0, 1 % NumVertices, NumVertices - 1>>, <<NumVertices - 1, 0, 0>> >>
Triangle == 1 .. Len(InputTriangles)

\* Positions a loaded mesh draws its vertices from (in ticks): a point, two
\* points two steps to either side of it, one a step and a half beside it and
\* one two and a half steps above it.
MeshPoints == { <<0, 0, 0>>, <<16, 0, 0>>, <<-16, 0, 0>>, <<12, 0, 0>>, <<0, 20, 0>> }
\* Targets the user may ask for (reduction_percent / 100).
TargetRates == { [num |-> n, den |-> 20] : n \in {0, 2, 5, 9, 12, 15, 19} }

VARIABLES
    vertices_,                  \* mesh vertex positions (becomes new_vertices at the swap)
    triangles_,                 \* mesh triangles
    origVertices,               \* the caller's positions, kept to state the claims
    eps,                        \* welding radius
    version,                    \* which variant runs
    phase,                      \* position of the calling thread in the function
    pid2nnBigger,               \* per vertex: sequence of bigger neighbours
    remainingSmallerFinalsVec,  \* per vertex: counter of smaller neighbours not yet emitted
    cp_vec,                     \* parent array
    initDone,                   \* iterations of the initialisation loop already run
    should_continue,            \* shared flag of the wave loop
    numIterations,              \* number of waves started
    singleDone,                 \* the single region of this wave has been executed
    taken,                      \* iterations of the current parallel-for already handed out
    pc,                         \* per thread: position in the parallel region
    cur,                        \* per thread: loop index i (-1: none yet in this loop)
    nbIdx,                      \* per thread: position in inner_vec
    isCentroid,                 \* per thread: local isCentroid
    expected,                   \* per thread: local expected of the CAS loop
    sc,                         \* per thread: private copy of should_continue (reduction)
    num_discovered_centroids,   \* padded per-thread counters (async)
    current_vertex_id,          \* per thread: local counter of the assignment loop (async)
    pid2ccid,                   \* original id -> new id
    new_vertices,               \* sequence of centroid positions (fractions)
    num_cluster_members_vec,    \* running member counts
    n_clusters,                 \* reduce: local n_clusters
    loopIdx,                    \* index of the serial loop (reduce / follower pass)
    triDone,                    \* triangles already rewritten
    waveEmits,                  \* history: number of vertices that emitted in the current wave
    waveSources,                \* history: the vertices that emitted in the current wave
    ub,                         \* an out-of-range access has happened
    \* ---- the command-line programs (main.cpp, find-eps.cpp)
    program,                    \* which executable runs ("none": a bare welding call)
    argc,                       \* number of command-line words, the program name included
    args_parse,                 \* std::stod / std::stoi accept the numeric arguments
    file_reads,                 \* ReadTriangleMesh succeeds on the input path
    dpc,                        \* position of the program
    exit_status,                \* "running", "0" or "abort" (killed by SIGABRT / SIGSEGV)
    usage_printed,              \* the usage text has been printed
    kdtree,                     \* points the spatial index was built over
    mesh,                       \* the mesh object of main
    target_reduction_rate,      \* find-eps: the target, a fraction
    epsilon,                    \* find-eps: loop variable of the linear search
    prev_reduction_rate,        \* find-eps: memoized rate of the previous step
    boundary_data,              \* find-eps: argument of find_epsilon_binary_search
    evals,                      \* history: the calls of get_reduction_rate so far
    output                      \* values printed as the result (epsilon / vertex count)

vars == << vertices_, triangles_, origVertices, eps, version, phase, pid2nnBigger,
           remainingSmallerFinalsVec, cp_vec, initDone, should_continue,
           numIterations, singleDone, taken, pc, cur, nbIdx, isCentroid, expected,
           sc, num_discovered_centroids, current_vertex_id, pid2ccid, new_vertices,
           num_cluster_members_vec, n_clusters, loopIdx, triDone, waveEmits, waveSources,
           ub,
           program, argc, args_parse, file_reads, dpc, exit_status, usage_printed,
           kdtree, mesh, target_reduction_rate, epsilon, prev_reduction_rate,
           boundary_data, evals, output >>

meshVars == << vertices_, triangles_, origVertices, eps, version >>
waveVars == << pid2nnBigger, remainingSmallerFinalsVec, cp_vec, should_continue,
               numIterations, singleDone, taken, pc, cur, nbIdx, isCentroid,
               expected, sc, num_discovered_centroids, waveEmits, waveSources >>
postVars == << current_vertex_id, pid2ccid, new_vertices, num_cluster_members_vec,
               n_clusters, loopIdx, triDone, ub >>
\* The variables of the command-line programs ...
driverVars == << program, argc, args_parse, file_reads, dpc, exit_status,
                 usage_printed, kdtree, mesh, target_reduction_rate, epsilon,
                 prev_reduction_rate, boundary_data, evals, output >>
\* ... and those of a welding call run step by step.
welderVars == << vertices_, triangles_, origVertices, eps, version, phase, initDone,
                 waveVars, postVars >>

\* ---------------------------------------------------------------- geometry
Dist2(p, q) ==
    (p[1] - q[1]) * (p[1] - q[1]) + (p[2] - q[2]) * (p[2] - q[2])
        + (p[3] - q[3]) * (p[3] - q[3])

\* Closed inclusion: distance <= radius.
WithinRadius(p, q, radius) == Dist2(p, q) <= radius * radius

Neighbour(i, j) == WithinRadius(origVertices[i], origVertices[j], eps)

\* KDTreeFlann::SearchRadiusSmallerAndBigger: the number of points within the
\* radius whose id is <= currentIdx (the query point included) ...
NumSmallerNeighbors_ExcludingSelf(pts, radius, currentIdx) ==
    Cardinality({ j \in DOMAIN pts :
                    j < currentIdx /\ WithinRadius(pts[j], pts[currentIdx], radius) })
NumSmallerNeighbors(pts, radius, currentIdx) ==
    Cardinality({ j \in DOMAIN pts :
                    j <= currentIdx /\ WithinRadius(pts[j], pts[currentIdx], radius) })

\* ... and the ids of those whose id is bigger, in an order the index chooses.
BiggerNeighbors(pts, radius, currentIdx) ==
    { j \in DOMAIN pts :
        j > currentIdx /\ WithinRadius(pts[j], pts[currentIdx], radius) }

Orderings(S) ==
    { s \in [1 .. Cardinality(S) -> S] :
        \A a, b \in 1 .. Cardinality(S) : a # b => s[a] # s[b] }

\* ------------------------------------------------- exact vector arithmetic
Frac(p) == [num |-> p, den |-> 1]
VecScale(c, p) == << c * p[1], c * p[2], c * p[3] >>
VecAdd(p, q) == << p[1] + q[1], p[2] + q[2], p[3] + q[3] >>
\* c * f, f + g, f / c on fractions
FracScale(c, f) == [num |-> VecScale(c, f.num), den |-> f.den]
FracAdd(f, g) ==
    [num |-> VecAdd(VecScale(g.den, f.num), VecScale(f.den, g.num)), den |-> f.den * g.den]
FracDiv(f, c) == [num |-> f.num, den |-> f.den * c]
FracEq(f, g) == VecScale(g.den, f.num) = VecScale(f.den, g.num)
\* An element of a resized vector that was never assigned.
Unassigned == [num |-> <<0, 0, 0>>, den |-> 0]

RECURSIVE SumPoints(_, _)
SumPoints(S, pts) ==
    IF S = {} THEN <<0, 0, 0>>
    ELSE LET i == CHOOSE x \in S : TRUE
         IN  VecAdd(pts[i], SumPoints(S \ {i}, pts))

\* ------------------------------------------------------------------- Init
NoThreadLocals ==
    /\ cur = [t \in Thread |-> -1]
    /\ nbIdx = [t \in Thread |-> 0]
    /\ isCentroid = [t \in Thread |-> FALSE]
    /\ expected = [t \in Thread |-> 0]
    /\ sc = [t \in Thread |-> FALSE]

EmptyMesh == [vertices_ |-> << >>, triangles_ |-> << >>]
ZeroRate == [num |-> 0, den |-> 1]

\* No command-line program is involved: a bare welding call.
DriverIdle ==
    /\ program = "none"
    /\ argc = 0
    /\ args_parse = TRUE
    /\ file_reads = TRUE
    /\ dpc = "none"
    /\ exit_status = "running"
    /\ usage_printed = FALSE
    /\ kdtree = << >>
    /\ mesh = EmptyMesh
    /\ target_reduction_rate = ZeroRate
    /\ epsilon = 0
    /\ prev_reduction_rate = ZeroRate
    /\ boundary_data = [epsilon_min_boundary |-> 0, epsilon_max_boundary |-> 0,
                        reduction_rate_on_min_boundary |-> ZeroRate,
                        reduction_rate_on_max_boundary |-> ZeroRate]
    /\ evals = << >>
    /\ output = << >>

\* State at entry of the welding call, after the vectors are constructed
\* (std::vector<int>(n) holds zeros).
Init ==
    /\ origVertices \in [Vertex -> Points]
    /\ vertices_ = [k \in 1 .. NumVertices |-> Frac(origVertices[k - 1])]
    /\ triangles_ = InputTriangles
    /\ eps \in EpsValues
    /\ version \in Versions
    /\ phase = "init"
    /\ pid2nnBigger = [i \in Vertex |-> << >>]
    /\ remainingSmallerFinalsVec = [i \in Vertex |-> 0]
    /\ cp_vec = [i \in Vertex |-> 0]
    /\ initDone = {}
    /\ should_continue = TRUE
    /\ numIterations = 0
    /\ singleDone = FALSE
    /\ taken = {}
    /\ pc = [t \in Thread |-> "idle"]
    /\ NoThreadLocals
    /\ num_discovered_centroids = [x \in 0 .. (ints_per_cache_line * NumThreads) |-> 0]
    /\ current_vertex_id = [t \in Thread |-> 0]
    /\ pid2ccid = [i \in Vertex |-> 0]
    /\ new_vertices = << >>
    /\ num_cluster_members_vec = << >>
    /\ n_clusters = 0
    /\ loopIdx = 0
    /\ triDone = {}
    /\ waveEmits = 0
    /\ waveSources = {}
    /\ ub = FALSE
    /\ DriverIdle

\* --------------------------------------------------- initialisation loop
\* Faulty variant: every vertex starts as a follower of the last one.
InitialParent_Last(i) == NumVertices - 1
\* cp_vec[ i ] = i (line 85)
InitialParent(i) == i

\* One iteration of the parallel-for of lines 80-87 / 189-199.
InitVertex(i) ==
    /\ phase = "init"
    /\ i \notin initDone
    /\ \E order \in Orderings(BiggerNeighbors(origVertices, eps, i)) :
           pid2nnBigger' = [pid2nnBigger EXCEPT ![i] = order]
    /\ cp_vec' = [cp_vec EXCEPT ![i] = InitialParent(i)]
    /\ remainingSmallerFinalsVec' =
           [remainingSmallerFinalsVec EXCEPT
                ![i] = NumSmallerNeighbors(origVertices, eps, i) - 1]
    /\ initDone' = initDone \cup {i}
    /\ UNCHANGED << driverVars, meshVars, phase, should_continue, numIterations, singleDone,
                    taken, pc, cur, nbIdx, isCentroid, expected, sc,
                    num_discovered_centroids, waveEmits, waveSources, postVars >>

\* numIterations = 0; should_continue = true; the team enters the parallel region.
EnterWaveLoop ==
    /\ phase = "init"
    /\ initDone = Vertex
    /\ phase' = "wave"
    /\ numIterations' = 0
    /\ should_continue' = TRUE
    /\ pc' = [t \in Thread |-> "while"]
    /\ UNCHANGED << driverVars, meshVars, pid2nnBigger, remainingSmallerFinalsVec, cp_vec,
                    initDone, singleDone, taken, cur, nbIdx, isCentroid, expected,
                    sc, num_discovered_centroids, waveEmits, waveSources, postVars >>

\* ------------------------------------------------------------ wave loop
\* The conditions of the loop body, as the code writes them.
IsOldActiveSource(r) == r < 0
\* Faulty variant: a vertex still waiting for a smaller neighbour is taken as a source.
IsActiveSource_Pending(r) == r >= 0
IsActiveSource(r) == r = 0
\* Faulty variant: the bound of the guard off by one.
ClaimGuard_OffByOne(r) == r > 1
ClaimGuard(r) == r > 0
\* Faulty variants of the CAS guard: no guard at all (the last writer wins),
\* and the comparison inverted.
CasAbandons_Never(desired, exp) == FALSE
CasAbandons_Inverted(desired, exp) == desired <= exp
CasAbandons(desired, exp) == desired >= exp
\* Faulty variant: continue only while the neighbour waits for someone else too.
ContinueGuard_Strict(r) == r > 1
ContinueGuard(r) == r >= 1

\* Faulty variant: every vertex of bigger id, not the neighbour list.
inner_vec_AllBigger(t) == [k \in 1 .. (NumVertices - 1 - cur[t]) |-> cur[t] + k]
inner_vec(t) == pid2nnBigger[cur[t]]
biggerNeighborIdx(t) == inner_vec(t)[nbIdx[t]]

\* Position after the loop body of one neighbour, or before the first one.
NeighbourPc(centroid, idx, len) ==
    IF idx > len THEN "for" ELSE IF centroid THEN "guard" ELSE "flag"

\* Each untaken iteration can still go to a thread that has not passed it.
Schedulable(tk, c) == \A i \in Vertex \ tk : \E t \in Thread : c[t] < i

\* while (should_continue)
WhileCheck(t) ==
    /\ phase = "wave"
    /\ pc[t] = "while"
    /\ pc' = [pc EXCEPT ![t] = IF should_continue THEN "barrier1" ELSE "exited"]
    /\ UNCHANGED << driverVars, meshVars, phase, initDone, pid2nnBigger,
                    remainingSmallerFinalsVec, cp_vec, should_continue,
                    numIterations, singleDone, taken, cur, nbIdx, isCentroid,
                    expected, sc, num_discovered_centroids, waveEmits, waveSources, postVars >>

\* #pragma omp barrier (line 100)
Barrier1 ==
    /\ phase = "wave"
    /\ \A t \in Thread : pc[t] = "barrier1"
    /\ pc' = [t \in Thread |-> "single"]
    /\ singleDone' = FALSE
    /\ UNCHANGED << driverVars, meshVars, phase, initDone, pid2nnBigger,
                    remainingSmallerFinalsVec, cp_vec, should_continue,
                    numIterations, taken, cur, nbIdx, isCentroid, expected, sc,
                    num_discovered_centroids, waveEmits, waveSources, postVars >>

\* Faulty variant: the single region left out, so should_continue is never reset.
Single_Skipped(t) ==
    /\ phase = "wave"
    /\ pc[t] = "single"
    /\ pc' = [pc EXCEPT ![t] = "barrier2"]
    /\ UNCHANGED << driverVars, meshVars, phase, initDone, pid2nnBigger,
                    remainingSmallerFinalsVec, cp_vec, should_continue,
                    numIterations, singleDone, taken, cur, nbIdx, isCentroid,
                    expected, sc, num_discovered_centroids, waveEmits, waveSources, postVars >>

\* #pragma omp single: the first thread to arrive runs the block, the others skip it.
Single(t) ==
    /\ phase = "wave"
    /\ pc[t] = "single"
    /\ pc' = [pc EXCEPT ![t] = "barrier2"]
    /\ singleDone' = TRUE
    /\ numIterations' = IF singleDone THEN numIterations ELSE numIterations + 1
    /\ should_continue' = IF singleDone THEN should_continue ELSE FALSE
    /\ UNCHANGED << driverVars, meshVars, phase, initDone, pid2nnBigger,
                    remainingSmallerFinalsVec, cp_vec, taken, cur, nbIdx,
                    isCentroid, expected, sc, num_discovered_centroids, waveEmits, waveSources,
                    postVars >>

\* Implicit barrier at the end of the single region; the omp for starts, each
\* thread with a private should_continue initialised to false.
Barrier2 ==
    /\ phase = "wave"
    /\ \A t \in Thread : pc[t] = "barrier2"
    /\ pc' = [t \in Thread |-> "for"]
    /\ taken' = {}
    /\ cur' = [t \in Thread |-> -1]
    /\ sc' = [t \in Thread |-> FALSE]
    /\ waveEmits' = 0
    /\ waveSources' = {}
    /\ UNCHANGED << driverVars, meshVars, phase, initDone, pid2nnBigger,
                    remainingSmallerFinalsVec, cp_vec, should_continue,
                    numIterations, singleDone, nbIdx, isCentroid, expected,
                    num_discovered_centroids, postVars >>

\* Thread t starts iteration i and tests remainingSmallerFinalsVec[i]
\* (lines 114-118): an old active source and a pending vertex are skipped.
ForIter(t, i) ==
    /\ phase = "wave"
    /\ pc[t] = "for"
    /\ i \notin taken
    /\ i > cur[t]
    /\ Schedulable(taken \cup {i}, [cur EXCEPT ![t] = i])
    /\ taken' = taken \cup {i}
    /\ cur' = [cur EXCEPT ![t] = i]
    /\ pc' = [pc EXCEPT ![t] =
                IF IsOldActiveSource(remainingSmallerFinalsVec[i]) THEN "for"
                ELSE IF IsActiveSource(remainingSmallerFinalsVec[i]) THEN "dec"
                ELSE "for"]
    /\ UNCHANGED << driverVars, meshVars, phase, initDone, pid2nnBigger,
                    remainingSmallerFinalsVec, cp_vec, should_continue,
                    numIterations, singleDone, nbIdx, isCentroid, expected, sc,
                    num_discovered_centroids, waveEmits, waveSources, postVars >>

\* --remainingSmallerFinalsVec[i] (line 120)
DecrementSelf(t) ==
    /\ phase = "wave"
    /\ pc[t] = "dec"
    /\ remainingSmallerFinalsVec' =
           [remainingSmallerFinalsVec EXCEPT ![cur[t]] = @ - 1]
    /\ waveEmits' = waveEmits + 1
    /\ waveSources' = waveSources \cup {cur[t]}
    /\ pc' = [pc EXCEPT ![t] = "cent"]
    /\ UNCHANGED << driverVars, meshVars, phase, initDone, pid2nnBigger, cp_vec,
                    should_continue, numIterations, singleDone, taken, cur, nbIdx,
                    isCentroid, expected, sc, num_discovered_centroids, postVars >>

\* bool isCentroid = (cp_vec[i] == i) (line 121); the async variant also counts
\* the centroid in the thread's padded counter (line 234).
ReadCentroid(t) ==
    LET c == (cp_vec[cur[t]] = cur[t])
        slot == t * ints_per_cache_line
    IN  /\ phase = "wave"
        /\ pc[t] = "cent"
        /\ isCentroid' = [isCentroid EXCEPT ![t] = c /\ Len(inner_vec(t)) > 0]
        /\ num_discovered_centroids' =
               IF version = 2 /\ c
               THEN [num_discovered_centroids EXCEPT ![slot] = @ + 1]
               ELSE num_discovered_centroids
        /\ nbIdx' = [nbIdx EXCEPT ![t] = IF Len(inner_vec(t)) > 0 THEN 1 ELSE 0]
        /\ pc' = [pc EXCEPT ![t] = NeighbourPc(c, 1, Len(inner_vec(t)))]
        /\ UNCHANGED << driverVars, meshVars, phase, initDone, pid2nnBigger,
                        remainingSmallerFinalsVec, cp_vec, should_continue,
                        numIterations, singleDone, taken, cur, expected, sc,
                        waveEmits, waveSources, postVars >>

\* isCentroid && remainingSmallerFinalsVec[biggerNeighborIdx] > 0 (line 126)
ReadClaimGuard(t) ==
    /\ phase = "wave"
    /\ pc[t] = "guard"
    /\ pc' = [pc EXCEPT ![t] =
                IF ClaimGuard(remainingSmallerFinalsVec[biggerNeighborIdx(t)])
                THEN "load" ELSE "flag"]
    /\ UNCHANGED << driverVars, meshVars, phase, initDone, pid2nnBigger,
                    remainingSmallerFinalsVec, cp_vec, should_continue,
                    numIterations, singleDone, taken, cur, nbIdx, isCentroid,
                    expected, sc, num_discovered_centroids, waveEmits, waveSources, postVars >>

\* expected = cp_vec[biggerNeighborIdx]; if (desired >= expected) break; (lines 132-133)
LoadExpected(t) ==
    LET e == cp_vec[biggerNeighborIdx(t)]
    IN  /\ phase = "wave"
        /\ pc[t] = "load"
        /\ expected' = [expected EXCEPT ![t] = IF CasAbandons(cur[t], e) THEN 0 ELSE e]
        /\ pc' = [pc EXCEPT ![t] = IF CasAbandons(cur[t], e) THEN "flag" ELSE "cas"]
        /\ UNCHANGED << driverVars, meshVars, phase, initDone, pid2nnBigger,
                        remainingSmallerFinalsVec, cp_vec, should_continue,
                        numIterations, singleDone, taken, cur, nbIdx, isCentroid,
                        sc, num_discovered_centroids, waveEmits, waveSources, postVars >>

\* __sync_bool_compare_and_swap(&cp_vec[biggerNeighborIdx], expected, desired) (line 134)
CompareAndSwap(t) ==
    LET j == biggerNeighborIdx(t)
        ok == cp_vec[j] = expected[t]
    IN  /\ phase = "wave"
        /\ pc[t] = "cas"
        /\ cp_vec' = IF ok THEN [cp_vec EXCEPT ![j] = cur[t]] ELSE cp_vec
        /\ expected' = [expected EXCEPT ![t] = 0]
        /\ pc' = [pc EXCEPT ![t] = IF ok THEN "flag" ELSE "load"]
        /\ UNCHANGED << driverVars, meshVars, phase, initDone, pid2nnBigger,
                        remainingSmallerFinalsVec, should_continue, numIterations,
                        singleDone, taken, cur, nbIdx, isCentroid, sc,
                        num_discovered_centroids, waveEmits, waveSources, postVars >>

\* if (remainingSmallerFinalsVec[biggerNeighborIdx] >= 1) should_continue = true;
\* (lines 137-140; should_continue is the thread's reduction copy)
ReadContinueGuard(t) ==
    /\ phase = "wave"
    /\ pc[t] = "flag"
    /\ sc' = [sc EXCEPT ![t] =
                IF ContinueGuard(remainingSmallerFinalsVec[biggerNeighborIdx(t)])
                THEN TRUE ELSE @]
    /\ pc' = [pc EXCEPT ![t] = "faa"]
    /\ UNCHANGED << driverVars, meshVars, phase, initDone, pid2nnBigger,
                    remainingSmallerFinalsVec, cp_vec, should_continue,
                    numIterations, singleDone, taken, cur, nbIdx, isCentroid,
                    expected, num_discovered_centroids, waveEmits, waveSources, postVars >>

\* __sync_fetch_and_add(&remainingSmallerFinalsVec[biggerNeighborIdx], -1) (line 141),
\* then the next neighbour or the end of the iteration.
FetchAndAdd(t) ==
    LET last == nbIdx[t] = Len(inner_vec(t))
    IN  /\ phase = "wave"
        /\ pc[t] = "faa"
        /\ remainingSmallerFinalsVec' =
               [remainingSmallerFinalsVec EXCEPT ![biggerNeighborIdx(t)] = @ - 1]
        /\ nbIdx' = [nbIdx EXCEPT ![t] = IF last THEN 0 ELSE @ + 1]
        /\ isCentroid' = [isCentroid EXCEPT ![t] = IF last THEN FALSE ELSE @]
        /\ pc' = [pc EXCEPT ![t] =
                    NeighbourPc(isCentroid[t], nbIdx[t] + 1, Len(inner_vec(t)))]
        /\ UNCHANGED << driverVars, meshVars, phase, initDone, pid2nnBigger, cp_vec,
                        should_continue, numIterations, singleDone, taken, cur,
                        expected, sc, num_discovered_centroids, waveEmits, waveSources,
                        postVars >>

\* Faulty variant: the private copy overwrites the shared flag.
CombineReduction_Overwrite(shared, private) == private
\* reduction (||:should_continue) (line 111): the combiner of the clause
CombineReduction(shared, private) == shared \/ private

\* End of the omp for: the thread's private flag is OR-ed into should_continue,
\* and the thread waits at the loop's closing barrier.
ForEnd(t) ==
    /\ phase = "wave"
    /\ pc[t] = "for"
    /\ taken = Vertex
    /\ should_continue' = CombineReduction(should_continue, sc[t])
    /\ sc' = [sc EXCEPT ![t] = FALSE]
    /\ pc' = [pc EXCEPT ![t] = "barrier3"]
    /\ UNCHANGED << driverVars, meshVars, phase, initDone, pid2nnBigger,
                    remainingSmallerFinalsVec, cp_vec, numIterations, singleDone,
                    taken, cur, nbIdx, isCentroid, expected,
                    num_discovered_centroids, waveEmits, waveSources, postVars >>

\* Implicit barrier at the end of the omp for.
Barrier3 ==
    /\ phase = "wave"
    /\ \A t \in Thread : pc[t] = "barrier3"
    /\ pc' = [t \in Thread |-> "while"]
    /\ cur' = [t \in Thread |-> -1]
    /\ UNCHANGED << driverVars, meshVars, phase, initDone, pid2nnBigger,
                    remainingSmallerFinalsVec, cp_vec, should_continue,
                    numIterations, singleDone, taken, nbIdx, isCentroid, expected,
                    sc, num_discovered_centroids, waveEmits, waveSources, postVars >>

\* End of the parallel region: every thread has left the while loop.
Join ==
    /\ phase = "wave"
    /\ \A t \in Thread : pc[t] = "exited"
    /\ pc' = [t \in Thread |-> "idle"]
    /\ phase' = IF version = 1 THEN "reduce" ELSE "scan"
    \* pid2ccid = std::vector<int>(numVertices) and the locals of reduce (lines 45-46)
    /\ pid2ccid' = [i \in Vertex |-> 0]
    /\ n_clusters' = 0
    /\ num_cluster_members_vec' =
           IF version = 1 THEN [k \in 1 .. NumVertices |-> 1] ELSE << >>
    /\ loopIdx' = 0
    /\ UNCHANGED << driverVars, meshVars, initDone, pid2nnBigger, remainingSmallerFinalsVec,
                    cp_vec, should_continue, numIterations, singleDone, taken, cur,
                    nbIdx, isCentroid, expected, sc, num_discovered_centroids,
                    waveEmits, waveSources, current_vertex_id, new_vertices, triDone, ub >>

WaveStep ==
    \/ \E t \in Thread :
         \/ WhileCheck(t)
         \/ Single(t)
         \/ \E i \in Vertex : ForIter(t, i)
         \/ DecrementSelf(t)
         \/ ReadCentroid(t)
         \/ ReadClaimGuard(t)
         \/ LoadExpected(t)
         \/ CompareAndSwap(t)
         \/ ReadContinueGuard(t)
         \/ FetchAndAdd(t)
         \/ ForEnd(t)
    \/ Barrier1
    \/ Barrier2
    \/ Barrier3
    \/ Join

\* ------------------------------------------------------------- reduce
\* Vectors are 0-based in the code and sequences 1-based here.
At(vec, idx) == vec[idx + 1]
InRange(vec, idx) == 0 <= idx /\ idx < Len(vec)
SetAt(vec, idx, val) == [vec EXCEPT ![idx + 1] = val]

\* Faulty variant: <= written for ==.
IsCentroidId_Le(i) == cp_vec[i] <= i
IsCentroidId(i) == cp_vec[i] = i

\* (v + n * prev) / (n + 1.0): the running mean of reduce (line 58)
RunningMean(v, n, prev) == FracDiv(FracAdd(v, FracScale(n, prev)), n + 1)

\* (prev * n + v) / static_cast<float>(n + 1): the follower pass (lines 298-300)
RunningMeanAsync(prev, n, v) == FracDiv(FracAdd(FracScale(n, prev), v), n + 1)

\* One iteration of the loop of reduce (lines 49-61).
ReduceStep ==
    LET i == loopIdx
        ccid == pid2ccid[cp_vec[i]]
        previous_cluster_size == At(num_cluster_members_vec, ccid)
    IN  /\ phase = "reduce"
        /\ loopIdx < NumVertices
        /\ loopIdx' = loopIdx + 1
        /\ IF IsCentroidId(i)
           THEN /\ pid2ccid' = [pid2ccid EXCEPT ![i] = n_clusters]
                /\ n_clusters' = n_clusters + 1
                /\ new_vertices' = Append(new_vertices, At(vertices_, i))
                /\ UNCHANGED << num_cluster_members_vec, ub >>
           ELSE IF InRange(new_vertices, ccid)
           THEN /\ num_cluster_members_vec' =
                       SetAt(num_cluster_members_vec, ccid, previous_cluster_size + 1)
                /\ new_vertices' =
                       SetAt(new_vertices, ccid,
                             RunningMean(At(vertices_, i), previous_cluster_size,
                                         At(new_vertices, ccid)))
                /\ pid2ccid' = [pid2ccid EXCEPT ![i] = ccid]
                /\ UNCHANGED << n_clusters, ub >>
           ELSE \* new_vertices[ccid] past the end of the vector
                /\ ub' = TRUE
                /\ pid2ccid' = [pid2ccid EXCEPT ![i] = ccid]
                /\ UNCHANGED << n_clusters, new_vertices, num_cluster_members_vec >>
        /\ UNCHANGED << driverVars, meshVars, phase, initDone, waveVars, current_vertex_id,
                        triDone >>

\* reduce returns; the triangle loop starts (line 153).
ReduceReturn ==
    /\ phase = "reduce"
    /\ loopIdx = NumVertices
    /\ phase' = "rewrite"
    /\ triDone' = {}
    /\ UNCHANGED << driverVars, meshVars, initDone, waveVars, current_vertex_id, pid2ccid,
                    new_vertices, num_cluster_members_vec, n_clusters, loopIdx, ub >>

\* ------------------------------------------- async: centroid assignment
RECURSIVE SumUpTo(_, _)
SumUpTo(f, n) == IF n < 0 THEN 0 ELSE f[n] + SumUpTo(f, n - 1)

\* std::exclusive_scan with init 0, in place
ExclusiveScan(f) == [x \in DOMAIN f |-> SumUpTo(f, x - 1)]

\* Lines 264-268: the scan; new_vertices.resize(last element).
ScanAndResize ==
    LET scanned == ExclusiveScan(num_discovered_centroids)
    IN  /\ phase = "scan"
        /\ num_discovered_centroids' = scanned
        /\ new_vertices' =
               [k \in 1 .. scanned[NumThreads * ints_per_cache_line] |-> Unassigned]
        /\ phase' = "assign"
        /\ taken' = {}
        /\ cur' = [t \in Thread |-> -1]
        /\ current_vertex_id' = [t \in Thread |-> 0]
        /\ UNCHANGED << driverVars, meshVars, initDone, pid2nnBigger, remainingSmallerFinalsVec,
                        cp_vec, should_continue, numIterations, singleDone, pc,
                        nbIdx, isCentroid, expected, sc, waveEmits, waveSources, pid2ccid,
                        num_cluster_members_vec, n_clusters, loopIdx, triDone, ub >>

offset(t) == num_discovered_centroids[t * ints_per_cache_line]
AssignedCcid(t) == offset(t) + current_vertex_id[t]

\* One iteration of the omp for of lines 276-285, run by thread t.
AssignIter(t, i) ==
    /\ phase = "assign"
    /\ i \notin taken
    /\ i > cur[t]
    /\ Schedulable(taken \cup {i}, [cur EXCEPT ![t] = i])
    /\ IsCentroidId(i) => InRange(new_vertices, AssignedCcid(t))
    /\ taken' = taken \cup {i}
    /\ cur' = [cur EXCEPT ![t] = i]
    /\ IF IsCentroidId(i)
       THEN /\ current_vertex_id' = [current_vertex_id EXCEPT ![t] = @ + 1]
            /\ new_vertices' = SetAt(new_vertices, AssignedCcid(t), At(vertices_, i))
            /\ pid2ccid' = [pid2ccid EXCEPT ![i] = AssignedCcid(t)]
       ELSE UNCHANGED << current_vertex_id, new_vertices, pid2ccid >>
    /\ UNCHANGED << driverVars, meshVars, phase, initDone, pid2nnBigger,
                    remainingSmallerFinalsVec, cp_vec, should_continue,
                    numIterations, singleDone, pc, nbIdx, isCentroid, expected, sc,
                    num_discovered_centroids, waveEmits, waveSources, num_cluster_members_vec,
                    n_clusters, loopIdx, triDone, ub >>

\* The same iteration when ccid is past the end of new_vertices: the store is
\* undefined behaviour.  Either the process dies, or the store lands outside
\* the vector and the call goes on.
AssignIterOutOfRange(t, i) ==
    /\ phase = "assign"
    /\ i \notin taken
    /\ i > cur[t]
    /\ Schedulable(taken \cup {i}, [cur EXCEPT ![t] = i])
    /\ IsCentroidId(i)
    /\ ~InRange(new_vertices, AssignedCcid(t))
    /\ ub' = TRUE
    /\ taken' = taken \cup {i}
    /\ cur' = [cur EXCEPT ![t] = i]
    /\ current_vertex_id' = [current_vertex_id EXCEPT ![t] = @ + 1]
    /\ pid2ccid' = [pid2ccid EXCEPT ![i] = AssignedCcid(t)]
    /\ \/ phase' = "crashed"
       \/ phase' = phase
    /\ UNCHANGED << driverVars, meshVars, initDone, pid2nnBigger, remainingSmallerFinalsVec,
                    cp_vec, should_continue, numIterations, singleDone, pc, nbIdx,
                    isCentroid, expected, sc, num_discovered_centroids, waveEmits, waveSources,
                    new_vertices, num_cluster_members_vec, n_clusters, loopIdx,
                    triDone >>

\* End of the assignment region; num_cluster_members_vec and num_clusters
\* (lines 287-288); the last parallel region starts.
AssignEnd ==
    /\ phase = "assign"
    /\ taken = Vertex
    /\ phase' = "post"
    /\ num_cluster_members_vec' =
           [k \in 1 .. num_discovered_centroids[NumThreads * ints_per_cache_line] |-> 1]
    /\ loopIdx' = 0
    /\ triDone' = {}
    /\ cur' = [t \in Thread |-> -1]
    /\ UNCHANGED << driverVars, meshVars, initDone, pid2nnBigger, remainingSmallerFinalsVec,
                    cp_vec, should_continue, numIterations, singleDone, taken, pc,
                    nbIdx, isCentroid, expected, sc, num_discovered_centroids,
                    waveEmits, waveSources, current_vertex_id, pid2ccid, new_vertices,
                    n_clusters, ub >>

\* One iteration of the single-threaded follower pass (lines 293-303).
FollowerStep ==
    LET i == loopIdx
        ccid == pid2ccid[cp_vec[i]]
    IN  /\ phase = "post"
        /\ loopIdx < NumVertices
        /\ ~IsCentroidId(i) => InRange(new_vertices, ccid)
        /\ loopIdx' = loopIdx + 1
        /\ IF ~IsCentroidId(i)
           THEN /\ new_vertices' =
                       SetAt(new_vertices, ccid,
                             RunningMeanAsync(At(new_vertices, ccid),
                                              At(num_cluster_members_vec, ccid),
                                              At(vertices_, i)))
                /\ num_cluster_members_vec' =
                       SetAt(num_cluster_members_vec, ccid,
                             At(num_cluster_members_vec, ccid) + 1)
           ELSE UNCHANGED << new_vertices, num_cluster_members_vec >>
        /\ UNCHANGED << driverVars, meshVars, phase, initDone, waveVars, current_vertex_id,
                        pid2ccid, n_clusters, triDone, ub >>

\* The same iteration when ccid is past the end of new_vertices.
FollowerStepOutOfRange ==
    LET i == loopIdx
        ccid == pid2ccid[cp_vec[i]]
    IN  /\ phase = "post"
        /\ loopIdx < NumVertices
        /\ ~IsCentroidId(i)
        /\ ~InRange(new_vertices, ccid)
        /\ ub' = TRUE
        /\ loopIdx' = loopIdx + 1
        /\ \/ phase' = "crashed"
           \/ phase' = phase
        /\ UNCHANGED << driverVars, meshVars, initDone, waveVars, current_vertex_id, pid2ccid,
                        new_vertices, num_cluster_members_vec, n_clusters, triDone >>

\* ------------------------------------------------------ triangle rewrite
\* forward: pid2ccid[triangle(c)] (lines 156-158);
\* async: pid2ccid[cp_vec[triangle(c)]] (lines 308-310)
\* Faulty variant: the async rewrite reads the member count of the cluster, a
\* location the follower pass writes.
NewTriangleId_ReadsMemberCount(id) ==
    IF version = 1 THEN pid2ccid[id]
    ELSE IF InRange(num_cluster_members_vec, pid2ccid[cp_vec[id]])
         THEN pid2ccid[cp_vec[id]] + At(num_cluster_members_vec, pid2ccid[cp_vec[id]]) - 1
         ELSE pid2ccid[cp_vec[id]]
NewTriangleId(id) == IF version = 1 THEN pid2ccid[id] ELSE pid2ccid[cp_vec[id]]

RewriteTriangle(k) ==
    /\ phase \in {"rewrite", "post"}
    /\ k \notin triDone
    /\ triDone' = triDone \cup {k}
    /\ triangles_' =
           [triangles_ EXCEPT
                ![k] = << NewTriangleId(@[1]), NewTriangleId(@[2]), NewTriangleId(@[3]) >>]
    /\ UNCHANGED << driverVars, vertices_, origVertices, eps, version, phase, initDone,
                    waveVars, current_vertex_id, pid2ccid, new_vertices,
                    num_cluster_members_vec, n_clusters, loopIdx, ub >>

\* const int num_clusters = num_discovered_centroids[num_threads*ints_per_cache_line]
\* (line 288)
num_clusters == num_discovered_centroids[NumThreads * ints_per_cache_line]
\* The chunk size of schedule (dynamic, num_clusters / num_threads / 2u) (line 305)
chunk_size == (num_clusters \div NumThreads) \div 2

\* A chunk size below 1 does not conform to OpenMP, and what the loop of lines
\* 305-311 does then depends on the runtime: one that replaces the value by a
\* default hands out the triangles as usual (RewriteTriangle); libgomp hands
\* out empty chunks for ever, so the follower pass ends, no triangle is ever
\* rewritten and no thread leaves the loop.
RewriteStalls ==
    /\ phase = "post"
    /\ version = 2
    /\ chunk_size < 1
    /\ loopIdx = NumVertices
    /\ triDone = {}
    /\ Triangle # {}
    /\ phase' = "stalled"
    /\ UNCHANGED << driverVars, meshVars, initDone, waveVars, postVars >>

\* std::swap(vertices_, new_vertices); return *this;
SwapAndReturn ==
    /\ phase \in {"rewrite", "post"}
    /\ triDone = Triangle
    /\ phase = "post" => loopIdx = NumVertices
    /\ vertices_' = new_vertices
    /\ new_vertices' = vertices_
    /\ phase' = "done"
    /\ UNCHANGED << driverVars, triangles_, origVertices, eps, version, initDone, waveVars,
                    current_vertex_id, pid2ccid, num_cluster_members_vec,
                    n_clusters, loopIdx, triDone, ub >>

PostStep ==
    \/ ReduceStep
    \/ ReduceReturn
    \/ ScanAndResize
    \/ \E t \in Thread, i \in Vertex : AssignIter(t, i)
    \/ \E t \in Thread, i \in Vertex : AssignIterOutOfRange(t, i)
    \/ AssignEnd
    \/ FollowerStep
    \/ FollowerStepOutOfRange
    \/ \E k \in Triangle : RewriteTriangle(k)
    \/ RewriteStalls
    \/ SwapAndReturn

Next ==
    \/ \E i \in Vertex : InitVertex(i)
    \/ EnterWaveLoop
    \/ WaveStep
    \/ PostStep

Spec == Init /\ [][Next]_vars

\* Fair scheduling: a thread that can take a step eventually takes one, a
\* barrier that every thread has reached opens, and the calling thread goes on.
ThreadStep(t) ==
    \/ WhileCheck(t)
    \/ Single(t)
    \/ \E i \in Vertex : ForIter(t, i)
    \/ DecrementSelf(t)
    \/ ReadCentroid(t)
    \/ ReadClaimGuard(t)
    \/ LoadExpected(t)
    \/ CompareAndSwap(t)
    \/ ReadContinueGuard(t)
    \/ FetchAndAdd(t)
    \/ ForEnd(t)
    \/ \E i \in Vertex : AssignIter(t, i)
    \/ \E i \in Vertex : AssignIterOutOfRange(t, i)

CallerStep ==
    \/ \E i \in Vertex : InitVertex(i)
    \/ EnterWaveLoop
    \/ Barrier1
    \/ Barrier2
    \/ Barrier3
    \/ Join
    \/ ReduceStep
    \/ ReduceReturn
    \/ ScanAndResize
    \/ AssignEnd
    \/ FollowerStep
    \/ FollowerStepOutOfRange
    \/ \E k \in Triangle : RewriteTriangle(k)
    \/ RewriteStalls
    \/ SwapAndReturn

FairSpec ==
    /\ Spec
    /\ \A t \in Thread : WF_vars(ThreadStep(t))
    /\ WF_vars(CallerStep)

\* ======================================================================
\* The command-line programs
\* ======================================================================
\* A program calls the welder as a function of the index, the mesh and eps.
\* The function below is merge_vertices_forward run by one thread: the loops
\* of the code in program order.  (C1: with more threads every interleaving
\* ends in the same parent array.)

Min(S) == CHOOSE x \in S : \A y \in S : x <= y

\* The ids of S in ascending order.
RECURSIVE AscendingSeq(_)
AscendingSeq(S) ==
    IF S = {} THEN << >>
    ELSE LET m == Min(S) IN << m >> \o AscendingSeq(S \ {m})

\* The points of the index, by 0-based id.
IndexPoints(kd) == [i \in 0 .. (Len(kd) - 1) |-> kd[i + 1]]

\* The state the initialisation loop leaves (lines 80-90).
wave_init(kd, radius) ==
    LET pts == IndexPoints(kd)
    IN  [nn  |-> [i \in DOMAIN pts |-> AscendingSeq(BiggerNeighbors(pts, radius, i))],
         rem |-> [i \in DOMAIN pts |-> NumSmallerNeighbors(pts, radius, i) - 1],
         cp  |-> [i \in DOMAIN pts |-> i],
         sc  |-> TRUE]

\* The loop over inner_vec of active source i, from position k on (lines 124-142).
RECURSIVE wave_inner(_, _, _, _)
wave_inner(st, i, isC, k) ==
    IF k > Len(st.nn[i]) THEN st
    ELSE LET j == st.nn[i][k]
             claims == isC /\ ClaimGuard(st.rem[j]) /\ ~CasAbandons(i, st.cp[j])
         IN  wave_inner([st EXCEPT !.cp[j] = IF claims THEN i ELSE @,
                                   !.sc = @ \/ ContinueGuard(st.rem[j]),
                                   !.rem[j] = @ - 1],
                        i, isC, k + 1)

\* The iterations i, i + 1, ... of the omp for (lines 112-144).
RECURSIVE wave_for(_, _)
wave_for(st, i) ==
    IF i \notin DOMAIN st.rem THEN st
    ELSE IF IsActiveSource(st.rem[i])
         THEN wave_for(wave_inner([st EXCEPT !.rem[i] = @ - 1], i, st.cp[i] = i, 1),
                       i + 1)
         ELSE wave_for(st, i + 1)

\* while (should_continue) { should_continue = false; for ... } (lines 95-145)
RECURSIVE wave_loop(_)
wave_loop(st) ==
    IF ~st.sc THEN st ELSE wave_loop(wave_for([st EXCEPT !.sc = FALSE], 0))

\* reduce (lines 45-61), from vertex i on; r holds pid2ccid, new_vertices and
\* num_cluster_members_vec.
RECURSIVE reduce_from(_, _, _, _)
reduce_from(cp, verts, i, r) ==
    IF i >= Len(verts) THEN r
    ELSE IF cp[i] = i
         THEN reduce_from(cp, verts, i + 1,
                  [pid2ccid |-> [r.pid2ccid EXCEPT ![i] = Len(r.new_vertices)],
                   new_vertices |-> Append(r.new_vertices, At(verts, i)),
                   members |-> Append(r.members, 1)])
         ELSE LET ccid == r.pid2ccid[cp[i]]
                  previous_cluster_size == At(r.members, ccid)
              IN  reduce_from(cp, verts, i + 1,
                      [pid2ccid |-> [r.pid2ccid EXCEPT ![i] = ccid],
                       new_vertices |->
                           SetAt(r.new_vertices, ccid,
                                 RunningMean(At(verts, i), previous_cluster_size,
                                             At(r.new_vertices, ccid))),
                       members |-> SetAt(r.members, ccid, previous_cluster_size + 1)])

\* merge_vertices_forward(kdtree, eps) on mesh m: the mesh it leaves.
merge_vertices_forward(kd, m, radius) ==
    LET n == Len(m.vertices_)
        cp == wave_loop(wave_init(kd, radius)).cp
        r == reduce_from(cp, m.vertices_, 0,
                         [pid2ccid |-> [i \in 0 .. (n - 1) |-> 0],
                          new_vertices |-> << >>, members |-> << >>])
    IN  [vertices_ |-> r.new_vertices,
         triangles_ |-> [k \in DOMAIN m.triangles_ |->
                            << r.pid2ccid[m.triangles_[k][1]],
                               r.pid2ccid[m.triangles_[k][2]],
                               r.pid2ccid[m.triangles_[k][3]] >>]]

\* ------------------------------------------------------------- rates
\* A reduction rate is a double; here an exact fraction, and 0 / 0.0 (an empty
\* mesh) is the NaN, written with denominator 0.  A comparison with a NaN is
\* false, as in IEEE 754.
IsNaN(a) == a.den = 0
RateLess(a, b) == ~IsNaN(a) /\ ~IsNaN(b) /\ a.num * b.den < b.num * a.den
RateLeq(a, b) == ~IsNaN(a) /\ ~IsNaN(b) /\ a.num * b.den <= b.num * a.den
RateSub(a, b) == [num |-> a.num * b.den - b.num * a.den, den |-> a.den * b.den]

\* The mesh a PLY file with the points pts holds.
MeshOf(pts) ==
    [vertices_ |-> [k \in 1 .. Len(pts) |-> Frac(pts[k])],
     triangles_ |-> IF Len(pts) = 0 THEN << >>
                    ELSE << <<0, 1 % Len(pts), Len(pts) - 1>> >>]
LoadableMeshes == [1 .. NumMeshVertices -> MeshPoints]

\* get_reduction_rate takes its Mesh by value: the welder runs on the copy
\* and the caller's mesh is what it was.
\* Faulty variant: the parameter taken by reference.
CallerMeshAfterCall_ByReference(m, welded) == welded
CallerMeshAfterCall(m, welded) == m

\* The value get_reduction_rate returns (lines 81-83).
reduction_rate(kd, m, e) ==
    LET initial_vertex_count == Len(m.vertices_)
    IN  [num |-> initial_vertex_count - Len(merge_vertices_forward(kd, m, e).vertices_),
         den |-> initial_vertex_count]

\* The record of one call of get_reduction_rate, kept as history.
Evaluation(e, by) ==
    [epsilon |-> e, rate |-> reduction_rate(kdtree, mesh, e), seen |-> mesh, by |-> by]

BinarySearchVals(lo, hi, rate_lo, rate_hi) ==
    [epsilon_min_boundary |-> lo, epsilon_max_boundary |-> hi,
     reduction_rate_on_min_boundary |-> rate_lo,
     reduction_rate_on_max_boundary |-> rate_hi]

\* ------------------------------------------------------------- start
\* No welding call is run step by step while a program is modelled.
WelderIdle ==
    /\ origVertices = [i \in Vertex |-> <<0, 0, 0>>]
    /\ vertices_ = [k \in 1 .. NumVertices |-> Frac(<<0, 0, 0>>)]
    /\ triangles_ = InputTriangles
    /\ eps = 0
    /\ version = 1
    /\ phase = "idle"
    /\ pid2nnBigger = [i \in Vertex |-> << >>]
    /\ remainingSmallerFinalsVec = [i \in Vertex |-> 0]
    /\ cp_vec = [i \in Vertex |-> 0]
    /\ initDone = {}
    /\ should_continue = TRUE
    /\ numIterations = 0
    /\ singleDone = FALSE
    /\ taken = {}
    /\ pc = [t \in Thread |-> "idle"]
    /\ NoThreadLocals
    /\ num_discovered_centroids = [x \in 0 .. (ints_per_cache_line * NumThreads) |-> 0]
    /\ current_vertex_id = [t \in Thread |-> 0]
    /\ pid2ccid = [i \in Vertex |-> 0]
    /\ new_vertices = << >>
    /\ num_cluster_members_vec = << >>
    /\ n_clusters = 0
    /\ loopIdx = 0
    /\ triDone = {}
    /\ waveEmits = 0
    /\ waveSources = {}
    /\ ub = FALSE

\* A program is started with argc words on its command line.
MaxArgc == 4
DriverInit ==
    /\ WelderIdle
    /\ program \in {"weld", "find-eps"}
    /\ argc \in 1 .. MaxArgc
    /\ args_parse \in BOOLEAN
    /\ file_reads \in BOOLEAN
    /\ dpc = "start"
    /\ exit_status = "running"
    /\ usage_printed = FALSE
    /\ kdtree = << >>
    /\ mesh = EmptyMesh
    /\ target_reduction_rate = ZeroRate
    /\ epsilon = 0
    /\ prev_reduction_rate = ZeroRate
    /\ boundary_data = BinarySearchVals(0, 0, ZeroRate, ZeroRate)
    /\ evals = << >>
    /\ output = << >>

\* The process ends with the given status.
Exit(status) ==
    /\ exit_status' = status
    /\ dpc' = "exited"

\* ---------------------------------------------------- find-eps: main
\* main of find-eps.cpp, argc < 4: the usage text, then return 0 (lines 225-233).
FindEpsUsage ==
    /\ program = "find-eps"
    /\ dpc = "start"
    /\ argc < 4
    /\ usage_printed' = TRUE
    /\ Exit("0")
    /\ UNCHANGED << welderVars, program, argc, args_parse, file_reads, kdtree, mesh,
                    target_reduction_rate, epsilon, prev_reduction_rate,
                    boundary_data, evals, output >>

\* std::stod(argv[2]), std::stoi(argv[3]) (lines 235-237); the rate handed on
\* is reduction_rate / 100.0 (line 253).
FindEpsParse ==
    /\ program = "find-eps"
    /\ dpc = "start"
    /\ argc >= 4
    /\ args_parse
    /\ target_reduction_rate' \in TargetRates
    /\ dpc' = "load"
    /\ UNCHANGED << welderVars, program, argc, args_parse, file_reads, exit_status,
                    usage_printed, kdtree, mesh, epsilon, prev_reduction_rate,
                    boundary_data, evals, output >>

\* The same lines when a conversion throws std::invalid_argument: nothing
\* catches it, std::terminate kills the process.
FindEpsParseThrows ==
    /\ program = "find-eps"
    /\ dpc = "start"
    /\ argc >= 4
    /\ ~args_parse
    /\ Exit("abort")
    /\ UNCHANGED << welderVars, program, argc, args_parse, file_reads, usage_printed,
                    kdtree, mesh, target_reduction_rate, epsilon,
                    prev_reduction_rate, boundary_data, evals, output >>

\* ReadTriangleMesh, its result unused, and the index built over the mesh
\* (lines 247-249); find_epsilon enters the linear search (lines 179-182).
FindEpsLoad ==
    /\ program = "find-eps"
    /\ dpc = "load"
    /\ IF file_reads THEN kdtree' \in LoadableMeshes ELSE kdtree' = << >>
    /\ mesh' = MeshOf(kdtree')
    /\ epsilon' = EPSILON_STEP_SIZE
    /\ prev_reduction_rate' = ZeroRate
    /\ dpc' = "linear"
    /\ UNCHANGED << welderVars, program, argc, args_parse, file_reads, exit_status,
                    usage_printed, target_reduction_rate, boundary_data, evals,
                    output >>

\* ------------------------------------------- find-eps: linear search
\* Faulty variant: > written for >=.
ReachesTarget_Strict(rate, target) == RateLess(target, rate)
\* reduction_rate >= target_reduction_rate (line 185)
ReachesTarget(rate, target) == RateLeq(target, rate)

\* One iteration of the loop of find_epsilon_range_by_linear_search
\* (lines 182-196).
LinearStep ==
    LET ev == Evaluation(epsilon, "linear")
    IN  /\ dpc = "linear"
        /\ epsilon < max_epsilon_searched
        /\ evals' = Append(evals, ev)
        /\ mesh' = CallerMeshAfterCall(mesh, merge_vertices_forward(kdtree, mesh, epsilon))
        /\ IF ReachesTarget(ev.rate, target_reduction_rate)
           THEN /\ boundary_data' =
                       BinarySearchVals(epsilon - EPSILON_STEP_SIZE, epsilon,
                                        prev_reduction_rate, ev.rate)
                /\ dpc' = "binary"
                /\ UNCHANGED << epsilon, prev_reduction_rate >>
           ELSE /\ prev_reduction_rate' = ev.rate
                /\ epsilon' = epsilon + EPSILON_STEP_SIZE
                /\ UNCHANGED << boundary_data, dpc >>
        /\ UNCHANGED << welderVars, program, argc, args_parse, file_reads,
                        exit_status, usage_printed, kdtree, target_reduction_rate,
                        output >>

\* The loop has ended without a return (lines 198-199).  Built with
\* assertions, assert(... && false) kills the process.
LinearExhaustedAssert ==
    /\ dpc = "linear"
    /\ epsilon >= max_epsilon_searched
    /\ Exit("abort")
    /\ UNCHANGED << welderVars, program, argc, args_parse, file_reads, usage_printed,
                    kdtree, mesh, target_reduction_rate, epsilon,
                    prev_reduction_rate, boundary_data, evals, output >>

\* Built with NDEBUG the assert is empty and the function returns
\* BinarySearchVals{ 0.0, 10.0, 0.0, 100.0 }.
LinearExhaustedReturn ==
    /\ dpc = "linear"
    /\ epsilon >= max_epsilon_searched
    /\ boundary_data' =
           BinarySearchVals(0, max_epsilon_searched, ZeroRate, [num |-> 100, den |-> 1])
    /\ dpc' = "binary"
    /\ UNCHANGED << welderVars, program, argc, args_parse, file_reads, exit_status,
                    usage_printed, kdtree, mesh, target_reduction_rate, epsilon,
                    prev_reduction_rate, evals, output >>

\* ------------------------------------------- find-eps: binary search
\* range and epsilon_midpoint (lines 102-103)
range == boundary_data.epsilon_max_boundary - boundary_data.epsilon_min_boundary
\* Faulty variant: the lower boundary taken for the midpoint.
epsilon_midpoint_AtMin == boundary_data.epsilon_min_boundary
epsilon_midpoint == boundary_data.epsilon_min_boundary + range \div 2

\* The two base cases that need no evaluation (lines 110 and 115).
NarrowEnough == range <= EPSILON_MIN_RANGE
RatesCloseEnough ==
    RateLess(RateSub(boundary_data.reduction_rate_on_max_boundary,
                     boundary_data.reduction_rate_on_min_boundary),
             REDUCTION_RATE_MIN_ERROR)

\* The value goes to "Epsilon: " on std::cout and main returns 0 (lines 253-255).
ReturnEpsilon(e) ==
    /\ output' = Append(output, e)
    /\ Exit("0")

\* find_epsilon_binary_search returns the midpoint without evaluating it.
BinaryBaseCase ==
    /\ dpc = "binary"
    /\ NarrowEnough \/ RatesCloseEnough
    /\ ReturnEpsilon(epsilon_midpoint)
    /\ UNCHANGED << welderVars, program, argc, args_parse, file_reads, usage_printed,
                    kdtree, mesh, target_reduction_rate, epsilon,
                    prev_reduction_rate, boundary_data, evals >>

\* Faulty variant: the midpoint within the tolerance is accepted from below only.
WithinTolerance_BelowOnly(rate, target) ==
    RateLeq(rate, target) /\ RateLess(RateSub(target, rate), REDUCTION_RATE_MIN_ERROR)
\* The third base case (lines 130-136 and 147-153).
WithinTolerance(rate, target) ==
    IF RateLeq(rate, target)
    THEN RateLess(RateSub(target, rate), REDUCTION_RATE_MIN_ERROR)
    ELSE RateLess(RateSub(rate, target), REDUCTION_RATE_MIN_ERROR)

\* Faulty variant: the halves exchanged.
NextBoundary_Swapped(mid_rate) ==
    IF RateLeq(mid_rate, target_reduction_rate)
    THEN BinarySearchVals(boundary_data.epsilon_min_boundary, epsilon_midpoint,
                          boundary_data.reduction_rate_on_min_boundary, mid_rate)
    ELSE BinarySearchVals(epsilon_midpoint, boundary_data.epsilon_max_boundary,
                          mid_rate, boundary_data.reduction_rate_on_max_boundary)
\* The argument of the recursive call (lines 139-145 and 156-162).
NextBoundary(mid_rate) ==
    IF RateLeq(mid_rate, target_reduction_rate)
    THEN BinarySearchVals(epsilon_midpoint, boundary_data.epsilon_max_boundary,
                          mid_rate, boundary_data.reduction_rate_on_max_boundary)
    ELSE BinarySearchVals(boundary_data.epsilon_min_boundary, epsilon_midpoint,
                          boundary_data.reduction_rate_on_min_boundary, mid_rate)

\* One call of find_epsilon_binary_search that evaluates the midpoint
\* (lines 126-164): it returns the midpoint or calls itself.
BinaryEvaluate ==
    LET ev == Evaluation(epsilon_midpoint, "binary")
    IN  /\ dpc = "binary"
        /\ ~NarrowEnough
        /\ ~RatesCloseEnough
        /\ evals' = Append(evals, ev)
        /\ mesh' = CallerMeshAfterCall(mesh,
                       merge_vertices_forward(kdtree, mesh, epsilon_midpoint))
        /\ IF WithinTolerance(ev.rate, target_reduction_rate)
           THEN /\ ReturnEpsilon(epsilon_midpoint)
                /\ UNCHANGED boundary_data
           ELSE /\ boundary_data' = NextBoundary(ev.rate)
                /\ UNCHANGED << output, exit_status, dpc >>
        /\ UNCHANGED << welderVars, program, argc, args_parse, file_reads,
                        usage_printed, kdtree, target_reduction_rate, epsilon,
                        prev_reduction_rate >>

\* -------------------------------------------------------- weld: main
\* Radii the user may give the weld program (in ticks).
WeldEpsilons == { 0, EPSILON_STEP_SIZE, 2 * EPSILON_STEP_SIZE }

\* main of main.cpp, argc == 1: the usage text, then return 0 (lines 44-53).
WeldUsage ==
    /\ program = "weld"
    /\ dpc = "start"
    /\ argc = 1
    /\ usage_printed' = TRUE
    /\ Exit("0")
    /\ UNCHANGED << welderVars, program, argc, args_parse, file_reads, kdtree, mesh,
                    target_reduction_rate, epsilon, prev_reduction_rate,
                    boundary_data, evals, output >>

\* Lines 55-59 with eps, version and the path given and well-formed.  (The
\* welding call is followed for version 1, merge_vertices_forward.)
WeldParse ==
    /\ program = "weld"
    /\ dpc = "start"
    /\ argc >= 4
    /\ args_parse
    /\ epsilon' \in WeldEpsilons
    /\ dpc' = "load"
    /\ UNCHANGED << welderVars, program, argc, args_parse, file_reads, exit_status,
                    usage_printed, kdtree, mesh, target_reduction_rate,
                    prev_reduction_rate, boundary_data, evals, output >>

\* The same lines when a conversion throws (std::invalid_argument from
\* std::stod or std::stoi), or when argc is 2 or 3: argv[2] or argv[3] is then
\* a null pointer and a std::string is built from it, which throws
\* std::logic_error or reads through the null pointer.  Either way the process
\* is killed; the usage text is not printed.
WeldParseThrows ==
    /\ program = "weld"
    /\ dpc = "start"
    /\ argc > 1
    /\ argc < 4 \/ ~args_parse
    /\ Exit("abort")
    /\ UNCHANGED << welderVars, program, argc, args_parse, file_reads, usage_printed,
                    kdtree, mesh, target_reduction_rate, epsilon,
                    prev_reduction_rate, boundary_data, evals, output >>

\* ReadTriangleMesh, its result unused, and the index built over the mesh
\* (lines 68-74).
WeldLoad ==
    /\ program = "weld"
    /\ dpc = "load"
    /\ IF file_reads THEN kdtree' \in LoadableMeshes ELSE kdtree' = << >>
    /\ mesh' = MeshOf(kdtree')
    /\ dpc' = "weld"
    /\ UNCHANGED << welderVars, program, argc, args_parse, file_reads, exit_status,
                    usage_printed, target_reduction_rate, epsilon,
                    prev_reduction_rate, boundary_data, evals, output >>

\* The welding call on mesh_pweld, the vertex count printed, and the end of
\* main (lines 81-105).
WeldRun ==
    /\ program = "weld"
    /\ dpc = "weld"
    /\ mesh' = merge_vertices_forward(kdtree, mesh, epsilon)
    /\ evals' = Append(evals, Evaluation(epsilon, "weld"))
    /\ output' = Append(output, Len(mesh'.vertices_))
    /\ Exit("0")
    /\ UNCHANGED << welderVars, program, argc, args_parse, file_reads, usage_printed,
                    kdtree, target_reduction_rate, epsilon, prev_reduction_rate,
                    boundary_data >>

DriverNext ==
    \/ FindEpsUsage
    \/ FindEpsParse
    \/ FindEpsParseThrows
    \/ FindEpsLoad
    \/ LinearStep
    \/ LinearExhaustedAssert
    \/ LinearExhaustedReturn
    \/ BinaryBaseCase
    \/ BinaryEvaluate
    \/ WeldUsage
    \/ WeldParse
    \/ WeldParseThrows
    \/ WeldLoad
    \/ WeldRun

\* A run of one of the two programs.
DriverSpec == DriverInit /\ [][DriverNext]_vars

\* A process that can take a step takes it.
FairDriverSpec == DriverSpec /\ WF_vars(DriverNext)

\* ======================================================================
\* Properties
\* ======================================================================
WaveLoopExited == phase \notin {"init", "wave"}
Centroids == { i \in Vertex : cp_vec[i] = i }
SmallerNeighbours(j) == { i \in Vertex : i < j /\ Neighbour(i, j) }

\* The parent array of the sequential greedy run over ascending ids: a
\* function of the mesh and eps alone.
RefParent[j \in Vertex] ==
    LET C == { i \in SmallerNeighbours(j) : RefParent[i] = i }
    IN  IF C = {} THEN j ELSE Min(C)

\* C1: once the wave loop has exited, the parent array (and with it the
\* partition into clusters) is a function of the mesh and eps only: it is the
\* same whatever the interleaving of iterations, CAS attempts and decrements.
C1_ParentDeterministic ==
    WaveLoopExited => cp_vec = [j \in Vertex |-> RefParent[j]]

\* C1 witness: the wave loop has exited on a mesh where two centroids raced
\* for the same bigger neighbour, and the smaller one holds it.
C1_Witness ==
    /\ WaveLoopExited
    /\ \E j \in Vertex : Cardinality(SmallerNeighbours(j) \cap Centroids) >= 2
    /\ numIterations >= 2

\* C2: when the wave loop has exited, parent[j] is the smallest centroid among
\* the smaller-id neighbours of j, or j when there is none; and a centroid
\* source that is done with the CAS on j has left parent[j] <= its own id,
\* whatever larger id was written there before.
C2_SmallestCentroidWins ==
    /\ WaveLoopExited =>
         \A j \in Vertex :
            LET C == SmallerNeighbours(j) \cap Centroids
            IN  cp_vec[j] = IF C = {} THEN j ELSE Min(C)
    /\ \A t \in Thread :
         (phase = "wave" /\ pc[t] \in {"flag", "faa"} /\ isCentroid[t])
            => cp_vec[biggerNeighborIdx(t)] <= cur[t]

\* C2 witness: a CAS is about to replace a larger centroid id, written
\* earlier, by a smaller one.
C2_Witness ==
    \E t \in Thread :
        /\ phase = "wave"
        /\ pc[t] = "cas"
        /\ cp_vec[biggerNeighborIdx(t)] = expected[t]
        /\ expected[t] # biggerNeighborIdx(t)
        /\ cur[t] < expected[t]

\* The part of C3 about the two loops: under fair scheduling every call leaves
\* the wave loop (the CAS retry loop and the while loop both end).
C3_WaveLoopEnds == <>WaveLoopExited

\* C3: under fair scheduling every call leaves the wave loop (the CAS retry
\* loop and the while loop both end) and then returns, unless the
\* out-of-range store of the asynchronous variant has happened.
C3_Terminates ==
    /\ <>WaveLoopExited
    /\ <>(phase = "done" \/ ub)

\* C3 witness: a CAS has just failed and the loop is about to retry.
C3_Witness ==
    \E t \in Thread :
        /\ phase = "wave"
        /\ pc[t] = "cas"
        /\ cp_vec[biggerNeighborIdx(t)] # expected[t]

\* C4: a thread leaves the while loop only when every vertex has emitted; and
\* a wave that ends with a vertex still to emit has set should_continue, so
\* another wave follows (no lost wake-up).
C4_ExitOnlyWhenAllEmitted ==
    /\ (WaveLoopExited \/ \E t \in Thread : pc[t] = "exited")
          => \A i \in Vertex : remainingSmallerFinalsVec[i] < 0
    /\ (phase = "wave" /\ (\A t \in Thread : pc[t] = "barrier3")
          /\ \E i \in Vertex : remainingSmallerFinalsVec[i] >= 0)
          => should_continue

\* C4 witness: a wave has ended at its barrier with a vertex whose counter
\* reached 0 only after its own iteration had been skipped.
C4_Witness ==
    /\ phase = "wave"
    /\ \A t \in Thread : pc[t] = "barrier3"
    /\ \E i \in Vertex : remainingSmallerFinalsVec[i] = 0

\* The new id the program gives original vertex i (what the triangle rewrite stores).
NewIdOf(i) == NewTriangleId(i)
Members(v) == { i \in Vertex : NewIdOf(i) = v }

\* C5: after welding with either variant every component of every triangle
\* is a valid index into the new vertex list and is the new id of the cluster
\* of the original vertex it referenced.
C5_TrianglesValid ==
    phase = "done" =>
        \A k \in Triangle : \A c \in 1 .. 3 :
            /\ InRange(vertices_, triangles_[k][c])
            /\ triangles_[k][c] = pid2ccid[cp_vec[InputTriangles[k][c]]]

\* get_reduction_rate (find-eps.cpp): (initial_vertex_count - vertices_.size())
\* over initial_vertex_count.  The difference is one of size_t values: it
\* wraps around if the count grew, which shows here as a negative numerator.
get_reduction_rate ==
    [num |-> NumVertices - Len(vertices_), den |-> NumVertices]

\* C6: the number K of vertices after welding is the number of centroids,
\* 1 <= K <= N, and the reduction rate (N - K) / N lies in [0, 1).
C6_VertexCount ==
    phase = "done" =>
        /\ Len(vertices_) = Cardinality(Centroids)
        /\ 1 <= Len(vertices_)
        /\ Len(vertices_) <= NumVertices
        /\ 0 <= get_reduction_rate.num
        /\ get_reduction_rate.num < get_reduction_rate.den

\* C6 witness: a forward weld has returned with some, but not all, vertices merged.
C6_Witness ==
    /\ phase = "done"
    /\ version = 1
    /\ 1 < Len(vertices_)
    /\ Len(vertices_) < NumVertices

C8_FollowerWithinEps ==
    \A j \in initDone :
        cp_vec[j] # j =>
            /\ cp_vec[j] \in Vertex
            /\ Neighbour(cp_vec[j], j)
            /\ \E k \in DOMAIN pid2nnBigger[cp_vec[j]] : pid2nnBigger[cp_vec[j]][k] = j

\* C8 witness: during the wave loop a vertex has been attached to a centroid.
C8_Witness ==
    /\ phase = "wave"
    /\ \E j \in Vertex : cp_vec[j] # j

\* C9: after welding with either variant each new vertex position is the
\* arithmetic mean of the original positions of exactly the original
\* vertices mapped to it, and its member count is the number of them.
C9_PositionsAreMeans ==
    phase = "done" =>
        \A v \in 0 .. (Len(vertices_) - 1) :
            /\ Members(v) # {}
            /\ At(vertices_, v).den > 0
            /\ FracEq(At(vertices_, v),
                      [num |-> SumPoints(Members(v), origVertices),
                       den |-> Cardinality(Members(v))])
            /\ At(num_cluster_members_vec, v) = Cardinality(Members(v))

\* The reduction step has finished.
AfterReduction ==
    \/ phase \in {"rewrite", "done"}
    \/ phase = "post" /\ loopIdx = NumVertices

\* C10 as stated: after the reduction step of either variant, pid2ccid[i] is
\* the new id of the centroid of i's cluster for every original vertex i.
C10_Pid2ccidEveryVertex ==
    AfterReduction => \A i \in Vertex : pid2ccid[i] = pid2ccid[cp_vec[i]]

\* C10 amended: after reduce, pid2ccid[i] is the new id of i's centroid for
\* every vertex, the centroids being numbered 0..K-1 without repetition; the
\* asynchronous variant writes pid2ccid for centroids only, and a follower's
\* entry keeps the 0 the vector was built with.
C10_Pid2ccidForwardOnly ==
    /\ (version = 1 /\ AfterReduction) =>
          /\ \A i \in Vertex : pid2ccid[i] = pid2ccid[cp_vec[i]]
          /\ { pid2ccid[c] : c \in Centroids } = 0 .. (Cardinality(Centroids) - 1)
          /\ Len(new_vertices) = Cardinality(Centroids) \/ phase = "done"
    /\ (version = 2 /\ WaveLoopExited) =>
          \A i \in Vertex \ Centroids : pid2ccid[i] = 0

\* C10 witness: the asynchronous variant has returned and a follower's entry
\* differs from the id of its centroid.
C10_Witness ==
    /\ version = 2
    /\ phase = "done"
    /\ \E i \in Vertex \ Centroids : pid2ccid[cp_vec[i]] # pid2ccid[i]

\* The forward variant alone meets C5 and C9.
ForwardTrianglesValid == version = 1 => C5_TrianglesValid
ForwardPositionsAreMeans == version = 1 => C9_PositionsAreMeans

\* ----------------------------------------------------------------------
\* What merge_vertices_forward returns, written down from the reference
\* parent array: centroids numbered in ascending id order.
RefCentroids == { i \in Vertex : RefParent[i] = i }
RefCluster(c) == { i \in Vertex : RefParent[i] = c }
RefRank(c) == Cardinality({ d \in RefCentroids : d < c })
RefMean(c) ==
    [num |-> SumPoints(RefCluster(c), origVertices), den |-> Cardinality(RefCluster(c))]

\* The forward variant returns exactly that mesh.
ForwardOutputIsReference ==
    (phase = "done" /\ version = 1) =>
        /\ Len(vertices_) = Cardinality(RefCentroids)
        /\ \A c \in RefCentroids : FracEq(At(vertices_, RefRank(c)), RefMean(c))
        /\ \A k \in Triangle : \A m \in 1 .. 3 :
               triangles_[k][m] = RefRank(RefParent[InputTriangles[k][m]])

\* C11: whichever variant ran, the returned mesh is the mesh the forward
\* variant returns up to a renumbering of the new vertices: the same number
\* of new vertices, and a permutation sigma of the new ids under which every
\* cluster has its mean position and every triangle corner its cluster's id.
\* (Stated for the runs in which no out-of-range access has happened.)
C11_VariantsAgreeUpToPermutation ==
    (phase = "done" /\ ~ub) =>
        LET K == Cardinality(RefCentroids)
        IN  /\ Len(vertices_) = K
            /\ \E sigma \in Orderings(0 .. (K - 1)) :
                  /\ \A c \in RefCentroids :
                        /\ At(vertices_, sigma[RefRank(c) + 1]).den > 0
                        /\ FracEq(At(vertices_, sigma[RefRank(c) + 1]), RefMean(c))
                  /\ \A k \in Triangle : \A m \in 1 .. 3 :
                        triangles_[k][m] =
                            sigma[RefRank(RefParent[InputTriangles[k][m]]) + 1]

\* C12: in merge_vertices_forward_async, once the centroid-assignment loop
\* has run, the ids given to the centroids are pairwise distinct and are
\* exactly 0..K-1, and no store went out of range, whatever the assignment
\* of iterations to threads in the wave loop and in the assignment loop.
C12_CcidsDistinctAndCover ==
    (version = 2 /\ phase \in {"post", "done", "crashed"}) =>
        /\ ~ub
        /\ \A c, d \in Centroids : c # d => pid2ccid[c] # pid2ccid[d]
        /\ { pid2ccid[c] : c \in Centroids } = 0 .. (Cardinality(Centroids) - 1)

\* The same statement for the runs in which every thread is handed, in the
\* assignment loop, as many centroids as it counted in the wave loop.
CountsMatch ==
    \A t \in Thread :
        current_vertex_id[t] =
            num_discovered_centroids[(t + 1) * ints_per_cache_line]
                - num_discovered_centroids[t * ints_per_cache_line]
CcidsRightWhenCountsMatch ==
    (version = 2 /\ phase \in {"post", "done"} /\ CountsMatch) =>
        /\ ~ub
        /\ { pid2ccid[c] : c \in Centroids } = 0 .. (Cardinality(Centroids) - 1)

\* C13 as stated, for merge_vertices_forward: welding any mesh with eps = 0
\* leaves the vertex count and every triangle unchanged, and every cluster
\* has size 1.
C13_EpsZeroIdentity ==
    (eps = 0 /\ version = 1 /\ phase = "done") =>
        /\ Len(vertices_) = NumVertices
        /\ triangles_ = InputTriangles
        /\ \A i \in Vertex : cp_vec[i] = i

DistinctPositions ==
    \A i, j \in Vertex : i # j => origVertices[i] # origVertices[j]
Coincident(i) == { j \in Vertex : origVertices[j] = origVertices[i] }

\* C13 amended: with eps = 0 the clusters are exactly the sets of vertices at
\* one position (the inclusion is closed, so coincident vertices are merged),
\* in either variant; for a mesh with pairwise distinct positions every
\* cluster has size 1, and merge_vertices_forward returns the vertex list and
\* every triangle unchanged.
C13_EpsZeroMergesCoincidentOnly ==
    eps = 0 =>
        /\ WaveLoopExited => \A i \in Vertex : cp_vec[i] = Min(Coincident(i))
        /\ (DistinctPositions /\ phase = "done" /\ version = 1) =>
              /\ Len(vertices_) = NumVertices
              /\ \A i \in Vertex : FracEq(At(vertices_, i), Frac(origVertices[i]))
              /\ triangles_ = InputTriangles

\* C13 witness: a forward weld with eps = 0 of a mesh with pairwise distinct
\* positions has returned.
C13_Witness ==
    /\ eps = 0
    /\ DistinctPositions
    /\ version = 1
    /\ phase = "done"

\* A weld with eps = 0 of a mesh with coincident vertices has returned.
C13_WitnessCoincident ==
    /\ eps = 0
    /\ ~DistinctPositions
    /\ phase = "done"
    /\ Len(vertices_) < NumVertices

\* ----------------------------------------------------------------------
\* Claims about the command-line programs (checked under DriverSpec)
LastEval == evals[Len(evals)]
\* The number of vertices the welder left in the call recorded as ev.
VertexCountAfter(ev) == ev.rate.den - ev.rate.num
DistinctPositionsOf(kd) == { kd[k] : k \in DOMAIN kd }

\* C14 as stated: of two welds of one mesh, the one with the larger eps
\* leaves at most as many vertices (the reduction rate is non-decreasing in
\* eps).  Stated of every two evaluations the epsilon finder has made.
C14_CountMonotoneInEps ==
    \A a, b \in DOMAIN evals :
        evals[a].epsilon < evals[b].epsilon =>
            VertexCountAfter(evals[a]) >= VertexCountAfter(evals[b])

\* C14 amended: welding with eps = 0 leaves one vertex per distinct position,
\* and welding with any eps >= 0 leaves at most that many.
C14_CountAtMostCountAtZero ==
    \A k \in DOMAIN evals :
        /\ Len(merge_vertices_forward(kdtree, evals[k].seen, 0).vertices_)
               = Cardinality(DistinctPositionsOf(kdtree))
        /\ VertexCountAfter(evals[k]) <= Cardinality(DistinctPositionsOf(kdtree))

\* C14 witness: the finder has evaluated two radii on one mesh and the larger
\* radius left more vertices.
C14_Witness ==
    \E a, b \in DOMAIN evals :
        /\ evals[a].epsilon < evals[b].epsilon
        /\ VertexCountAfter(evals[a]) < VertexCountAfter(evals[b])

\* The linear search has just returned from inside its loop.
LinearReturned ==
    /\ dpc = "binary"
    /\ epsilon < max_epsilon_searched
    /\ evals # << >>
    /\ LastEval.by = "linear"

C17_CapExhaustedIsError ==
    (program = "find-eps" /\ epsilon >= max_epsilon_searched /\ dpc # "linear") =>
        /\ dpc = "exited"
        /\ exit_status = "abort"
        /\ output = << >>

\* C19: a call of get_reduction_rate leaves the caller's mesh (vertices and
\* triangles) as it was loaded, so every evaluation of the linear and of the
\* binary phase welds the same original mesh.
C19_CallerMeshUnchanged ==
    program = "find-eps" =>
        /\ mesh = MeshOf(kdtree)
        /\ \A k \in DOMAIN evals : evals[k].seen = MeshOf(kdtree)

\* C19 witness: at least two evaluations have been made and the last one
\* merged vertices in its copy.
C19_Witness ==
    /\ program = "find-eps"
    /\ Len(evals) >= 2
    /\ LastEval.rate.num > 0

\* C20: a program that has ended with missing or unparseable arguments has
\* printed the usage text and its exit status is not 0; with an input file
\* that cannot be read the welder is never run and the exit status is not 0.
ArgumentError == argc < 4 \/ ~args_parse
C20_ExitZeroOnlyOnSuccess ==
    /\ (dpc = "exited" /\ ArgumentError) => (usage_printed /\ exit_status # "0")
    /\ (~ArgumentError /\ ~file_reads) =>
           /\ evals = << >>
           /\ dpc = "exited" => exit_status # "0"

\* What C18 says of every case but the acceptance of the evaluated midpoint:
\* with a narrow interval or close end rates the call returns the midpoint and
\* evaluates nothing; otherwise it evaluates the midpoint once, and where
\* accepted(rate_mid) holds it returns the midpoint, else it calls itself on
\* the upper half when rate_mid <= r and on the lower half when rate_mid > r.
BinaryCallAsClaimed(accepted(_)) ==
    LET lo == boundary_data.epsilon_min_boundary
        hi == boundary_data.epsilon_max_boundary
        mid == lo + (hi - lo) \div 2
        rate_lo == boundary_data.reduction_rate_on_min_boundary
        rate_hi == boundary_data.reduction_rate_on_max_boundary
        r == target_reduction_rate
        rate_mid == reduction_rate(kdtree, mesh, mid)
    IN  IF hi - lo <= EPSILON_MIN_RANGE
           \/ RateLess(RateSub(rate_hi, rate_lo), REDUCTION_RATE_MIN_ERROR)
        THEN /\ evals' = evals
             /\ output' = << mid >>
             /\ dpc' = "exited"
        ELSE /\ Len(evals') = Len(evals) + 1
             /\ evals'[Len(evals')].epsilon = mid
             /\ IF accepted(rate_mid)
                THEN /\ output' = << mid >>
                     /\ dpc' = "exited"
                ELSE /\ output' = << >>
                     /\ dpc' = "binary"
                     /\ boundary_data' =
                            IF RateLeq(rate_mid, r)
                            THEN BinarySearchVals(mid, hi, rate_mid, rate_hi)
                            ELSE BinarySearchVals(lo, mid, rate_lo, rate_mid)

AcceptedFromBelow(rate_mid) ==
    /\ RateLeq(rate_mid, target_reduction_rate)
    /\ RateLess(RateSub(target_reduction_rate, rate_mid), REDUCTION_RATE_MIN_ERROR)
AcceptedFromAbove(rate_mid) ==
    /\ RateLess(target_reduction_rate, rate_mid)
    /\ RateLess(RateSub(rate_mid, target_reduction_rate), REDUCTION_RATE_MIN_ERROR)
AcceptedFromEitherSide(rate_mid) ==
    AcceptedFromBelow(rate_mid) \/ AcceptedFromAbove(rate_mid)

\* C18 as stated: one call of find_epsilon_binary_search returns the midpoint
\* unevaluated if eps_hi - eps_lo <= EPSILON_MIN_RANGE or rate_hi - rate_lo <
\* REDUCTION_RATE_MIN_ERROR; otherwise it evaluates rate_mid and returns the
\* midpoint if rate_mid <= r and r - rate_mid < REDUCTION_RATE_MIN_ERROR; in
\* every other case it recurses on the upper half when rate_mid <= r and on
\* the lower half when rate_mid > r.
C18_BinaryStepAcceptsBelowOnly ==
    [][dpc = "binary" => BinaryCallAsClaimed(AcceptedFromBelow)]_vars

\* C18 amended: as stated, except that the evaluated midpoint is returned
\* whenever its rate is within REDUCTION_RATE_MIN_ERROR of r on either side
\* (rate_mid <= r and r - rate_mid < ERR, or rate_mid > r and rate_mid - r <
\* ERR).
C18_BinaryStepAcceptsEitherSide ==
    [][dpc = "binary" => BinaryCallAsClaimed(AcceptedFromEitherSide)]_vars

\* C18 witness: the binary search has returned a midpoint it evaluated, whose
\* rate is above the target and within the tolerance of it.
C18_Witness ==
    /\ program = "find-eps"
    /\ dpc = "exited"
    /\ output # << >>
    /\ evals # << >>
    /\ LastEval.by = "binary"
    /\ LastEval.epsilon = output[1]
    /\ AcceptedFromAbove(LastEval.rate)

\* Every radius at which the clustering of a loadable mesh can change lies
\* between two neighbours of this grid (no two mesh points are farther apart
\* than the cap).
EpsilonGrid == 0 .. (max_epsilon_searched + EPSILON_STEP_SIZE)
RateAt(e) == reduction_rate(kdtree, MeshOf(kdtree), e)
\* r lies in (0, achievable_max).
BelowAchievableMax(r) ==
    /\ RateLess(ZeroRate, r)
    /\ \E e \in EpsilonGrid : RateLess(r, RateAt(e))
\* r > 0 is reached at a step of the linear search below the cap.
ReachedOnLinearGrid(r) ==
    /\ RateLess(ZeroRate, r)
    /\ \E k \in 1 .. (max_epsilon_searched \div EPSILON_STEP_SIZE) :
           /\ k * EPSILON_STEP_SIZE < max_epsilon_searched
           /\ RateLeq(r, RateAt(k * EPSILON_STEP_SIZE))
FindEpsEnded ==
    /\ program = "find-eps"
    /\ dpc = "exited"
    /\ ~ArgumentError
    /\ file_reads
RateWithinError(e) ==
    \/ RateLess(RateSub(RateAt(e), target_reduction_rate), REDUCTION_RATE_MIN_ERROR)
       /\ RateLeq(target_reduction_rate, RateAt(e))
    \/ RateLess(RateSub(target_reduction_rate, RateAt(e)), REDUCTION_RATE_MIN_ERROR)
       /\ RateLeq(RateAt(e), target_reduction_rate)
NearAnEpsilonMeetingTarget(e) ==
    \E e2 \in EpsilonGrid :
        /\ e2 - e <= EPSILON_MIN_RANGE
        /\ e - e2 <= EPSILON_MIN_RANGE
        /\ RateLeq(target_reduction_rate, RateAt(e2))
\* e is the midpoint of the last bracket, whose recorded end rates are within
\* the tolerance of each other and have the target between them.
MidpointOfCloseBracket(e) ==
    /\ e = epsilon_midpoint
    /\ RatesCloseEnough
    /\ RateLeq(boundary_data.reduction_rate_on_min_boundary, target_reduction_rate)
    /\ RateLeq(target_reduction_rate, boundary_data.reduction_rate_on_max_boundary)

PathGraph ==
    /\ Vertex = {0, 1, 2}
    /\ Neighbour(0, 1)
    /\ Neighbour(1, 2)
    /\ ~Neighbour(0, 2)
\* The thread running iteration i of the wave's parallel-for is at pc p.
SourceAt(i, p) == \E t \in Thread : phase = "wave" /\ cur[t] = i /\ pc[t] = p

\* C21: on the path 0 - 1 - 2 the wave loop ends with the clusters {0, 1} and
\* {2}: vertex 1 captures isCentroid = false and vertex 2 captures isCentroid
\* = true when they emit, the only write to the parent array in the wave loop
\* is vertex 0's claim of vertex 1, and merge_vertices_forward returns two
\* vertices; in every interleaving.
C21_PathOfThree ==
    /\ [](PathGraph =>
            /\ WaveLoopExited => cp_vec = [i \in Vertex |-> IF i = 1 THEN 0 ELSE i]
            /\ SourceAt(1, "cent") => cp_vec[1] = 0
            /\ SourceAt(2, "cent") => cp_vec[2] = 2
            /\ (phase = "done" /\ version = 1) => Len(vertices_) = 2)
    /\ [][(PathGraph /\ phase = "wave" /\ cp_vec' # cp_vec) =>
            /\ SourceAt(0, "cas")
            /\ cp_vec' = [cp_vec EXCEPT ![1] = 0]]_vars

\* C21 witness: merge_vertices_forward has returned on a path of three.
C21_Witness ==
    /\ PathGraph
    /\ phase = "done"
    /\ version = 1
    /\ Len(vertices_) = 2

\* Every connected component of the eps-graph is a clique: the neighbour
\* relation (reflexive and symmetric) is transitive.
CliqueComponents ==
    \A i, j, k \in Vertex : (Neighbour(i, j) /\ Neighbour(j, k)) => Neighbour(i, k)
Component(i) == { j \in Vertex : Neighbour(i, j) }
Isolated(i) == Component(i) = {i}

\* With clique components: one cluster per component, led by its smallest
\* id; an isolated vertex has rem = 0 once initialised and emits in the first
\* wave as its own centroid.
CliqueClusters ==
    CliqueComponents =>
        /\ WaveLoopExited => \A i \in Vertex : cp_vec[i] = Min(Component(i))
        /\ \A i \in Vertex : Isolated(i) =>
              /\ (phase = "init" /\ i \in initDone) => remainingSmallerFinalsVec[i] = 0
              /\ SourceAt(i, "cent") => (numIterations = 1 /\ cp_vec[i] = i)
              /\ (numIterations >= 2 \/ WaveLoopExited) =>
                     remainingSmallerFinalsVec[i] = -1

\* With clique components: the call returns one vertex per component, the
\* clusters have pairwise different new ids in range, and every triangle
\* corner holds the new id of the cluster of the vertex it referenced.
CliqueTriangles ==
    (CliqueComponents /\ phase \in {"done", "crashed"}) =>
        /\ ~ub
        /\ Len(vertices_) = Cardinality({ Component(i) : i \in Vertex })
        /\ \A c, d \in Centroids : c # d => pid2ccid[c] # pid2ccid[d]
        /\ \A k \in Triangle : \A m \in 1 .. 3 :
              /\ InRange(vertices_, triangles_[k][m])
              /\ triangles_[k][m] = pid2ccid[Min(Component(InputTriangles[k][m]))]

\* C22: when every connected component of the eps-graph is a clique, welding
\* yields one cluster per component whose centroid is the component's
\* smallest id, and every triangle index is rewritten to that cluster's new
\* id; an isolated vertex has rem = 0 initially and emits in the first wave
\* as its own centroid.
C22_CliqueComponents == CliqueClusters /\ CliqueTriangles

\* The same statement for merge_vertices_forward alone.
ForwardCliqueComponents == version = 1 => C22_CliqueComponents

\* c is the smallest centroid among the eps-neighbours of j.
SmallestCentroidNeighbour(c, j) ==
    /\ c # j
    /\ c \in Centroids
    /\ Neighbour(c, j)
    /\ \A d \in Centroids \ {j} : Neighbour(d, j) => c <= d

\* C23: two eps-neighbours may end in different clusters (the clustering is
\* not the connected components of the eps-graph), and where they do,
\* neither of them is the other's smallest centroid neighbour.
C23_NeighboursMayBeSplit ==
    WaveLoopExited =>
        \A i, j \in Vertex :
            (Neighbour(i, j) /\ cp_vec[i] # cp_vec[j]) =>
                /\ ~SmallestCentroidNeighbour(i, j)
                /\ ~SmallestCentroidNeighbour(j, i)

\* C23 witness: the wave loop has ended with two eps-neighbours in different
\* clusters.
C23_Witness ==
    /\ WaveLoopExited
    /\ \E i, j \in Vertex : Neighbour(i, j) /\ cp_vec[i] # cp_vec[j]

\* C24: in every state of a welding call, from the initialisation loop to the
\* return, parent[i] <= i for every vertex i; the initialisation loop sets
\* parent[i] = i, and the wave loop is entered with parent[i] = i for all i.
C24_ParentAtMostSelf ==
    \A i \in Vertex :
        /\ cp_vec[i] <= i
        /\ cp_vec[i] >= 0
        /\ (phase = "init" /\ i \in initDone) => cp_vec[i] = i
        /\ (phase = "wave" /\ numIterations = 0) => cp_vec[i] = i

\* C24 witness: a claim has lowered a parent pointer below its vertex's id.
C24_Witness ==
    /\ phase = "wave"
    /\ \E i \in Vertex : cp_vec[i] < i

\* Vertex i has emitted: its counter has made the step 0 -> -1.
Emitted(i) == remainingSmallerFinalsVec[i] < 0

\* C25: in every state the parent array has depth at most 1
\* (parent[parent[i]] = parent[i]), so it has no cycle but the self-loops of
\* the centroids; and a vertex that was a centroid when it emitted stays one.
C25_DepthAtMostOne ==
    /\ [](\A i \in Vertex : cp_vec[cp_vec[i]] = cp_vec[i])
    /\ [][\A i \in Vertex :
            (phase = "wave" /\ Emitted(i) /\ cp_vec[i] = i) => cp_vec'[i] = i]_vars

\* C25 witness: a centroid that has emitted holds a follower while the wave
\* loop is still running.
C25_Witness ==
    /\ phase = "wave"
    /\ \E i, j \in Vertex :
          /\ i # j
          /\ Emitted(i)
          /\ cp_vec[i] = i
          /\ cp_vec[j] = i
          /\ ~Emitted(j)

\* C26: over a welding call each vertex is an active source exactly once.
\* Once rem[i] is 0 or below, the only step that changes it is the decrement
\* 0 -> -1 by the thread that runs iteration i and has read rem[i] = 0 (so
\* no other thread writes rem[i] between that read and the end of the
\* decrement, and -1 is final); an iteration is run by one thread; and when
\* the wave loop has ended every rem[i] is -1.
C26_ActiveSourceOnce ==
    /\ [][\A i \in Vertex :
            (phase = "wave" /\ remainingSmallerFinalsVec[i] <= 0
               /\ remainingSmallerFinalsVec'[i] # remainingSmallerFinalsVec[i]) =>
                /\ remainingSmallerFinalsVec[i] = 0
                /\ remainingSmallerFinalsVec'[i] = -1
                /\ \E t \in Thread :
                      cur[t] = i /\ pc[t] = "dec" /\ pc'[t] = "cent"]_vars
    /\ []((phase = "wave") =>
            \A t, u \in Thread : (t # u /\ cur[t] >= 0) => cur[t] # cur[u])
    /\ [](WaveLoopExited => \A i \in Vertex : remainingSmallerFinalsVec[i] = -1)

\* C26 witness: a thread has read rem[i] = 0 for a vertex with a smaller
\* neighbour and has not yet decremented it, while another thread is inside
\* the loop over the neighbours of its own source.
C26_Witness ==
    \E t, u \in Thread :
        /\ t # u
        /\ phase = "wave"
        /\ pc[t] = "dec"
        /\ SmallerNeighbours(cur[t]) # {}
        /\ pc[u] \in {"guard", "load", "cas", "flag", "faa"}

\* Every thread has finished the parallel-for of the current wave.
WaveEnded == phase = "wave" /\ \A t \in Thread : pc[t] = "barrier3"

\* C27 as stated: every iteration of the wave loop, the last one before the
\* exit included, emits at least one vertex.
C27_EveryWaveEmits == WaveEnded => waveEmits >= 1

\* C27 amended: the first iteration of the wave loop and every iteration that
\* is followed by another one (it has set should_continue) emit at least one
\* vertex; an iteration that emits none is the last one and finds every
\* vertex emitted.
C27_EveryWaveButTheLastEmits ==
    WaveEnded =>
        /\ (numIterations = 1 \/ should_continue) => waveEmits >= 1
        /\ waveEmits = 0 => \A i \in Vertex : Emitted(i)

\* C27 witness: a wave that is neither the first nor the last has ended.
C27_Witness ==
    /\ WaveEnded
    /\ numIterations >= 2
    /\ should_continue

\* The last wave has ended without emitting a vertex.
C27_WitnessEmptyLastWave ==
    /\ WaveEnded
    /\ ~should_continue
    /\ waveEmits = 0

\* Thread u runs source cur[u] and has not yet finished with vertex i: the
\* claim attempt on i or the decrement of rem[i] is still to come.
NotDoneWith(u, i) ==
    /\ phase = "wave"
    /\ pc[u] \in {"cent", "guard", "load", "cas", "flag", "faa"}
    /\ \E p \in DOMAIN inner_vec(u) :
          inner_vec(u)[p] = i /\ (pc[u] = "cent" \/ p >= nbIdx[u])

\* C28: from the moment rem[i] is 0 (so when i becomes an active source)
\* every smaller eps-neighbour of i has emitted and is done with its claim
\* attempt on i and its decrement of rem[i]; no later step changes parent[i];
\* and the isCentroid a source holds is its centroid status then and at the
\* end of the wave loop.
C28_ParentFinalAtActivation ==
    /\ [](\A i \in Vertex :
            (phase = "wave" /\ remainingSmallerFinalsVec[i] <= 0) =>
                \A k \in SmallerNeighbours(i) :
                    /\ Emitted(k)
                    /\ \A u \in Thread : cur[u] = k => ~NotDoneWith(u, i))
    /\ [](\A t \in Thread :
            (phase = "wave" /\ pc[t] \in {"guard", "load", "cas", "flag", "faa"}) =>
                isCentroid[t] = (cp_vec[cur[t]] = cur[t]))
    /\ [][\A i \in Vertex :
            (phase # "init" /\ remainingSmallerFinalsVec[i] <= 0) =>
                cp_vec'[i] = cp_vec[i]]_vars

\* C28 witness: a vertex that a smaller neighbour has claimed has become an
\* active source, as a follower, while another thread is still running.
C28_Witness ==
    \E t, u \in Thread :
        /\ t # u
        /\ phase = "wave"
        /\ pc[t] = "cent"
        /\ cp_vec[cur[t]] # cur[t]
        /\ pc[u] \in {"guard", "load", "cas", "flag", "faa"}

\* C29: every step of the wave loop that changes the parent array is the CAS
\* of a thread whose source i is an active source (it has emitted in this
\* iteration) and a centroid, on a vertex j of bigger[i] (so i < j), and it
\* replaces a value > i by i; no step after the initialisation loop writes
\* the array otherwise, so no parent[j] ever grows.
C29_OnlyCentroidSourcesLowerParents ==
    /\ [][(phase = "wave" /\ cp_vec' # cp_vec) =>
            \E t \in Thread :
                LET i == cur[t]
                    j == biggerNeighborIdx(t)
                IN  /\ pc[t] = "cas"
                    /\ Emitted(i)
                    /\ cp_vec[i] = i
                    /\ isCentroid[t]
                    /\ j \in BiggerNeighbors(origVertices, eps, i)
                    /\ i < j
                    /\ i < cp_vec[j]
                    /\ cp_vec' = [cp_vec EXCEPT ![j] = i]]_vars
    /\ [][phase # "init" => \A j \in Vertex : cp_vec'[j] <= cp_vec[j]]_vars
    /\ [][phase \notin {"init", "wave"} => cp_vec' = cp_vec]_vars

\* C29 witness: two sources are in the CAS loop on the same vertex, and the
\* CAS of one of them is about to succeed.
C29_Witness ==
    \E t, u \in Thread :
        /\ t # u
        /\ phase = "wave"
        /\ pc[t] = "cas"
        /\ pc[u] \in {"load", "cas"}
        /\ biggerNeighborIdx(t) = biggerNeighborIdx(u)
        /\ cp_vec[biggerNeighborIdx(t)] = expected[t]

\* No thread is inside the parallel-for of a wave.
AtWaveBoundary ==
    /\ phase = "wave"
    /\ \A t \in Thread :
          pc[t] \in {"while", "barrier1", "single", "barrier2", "barrier3", "exited"}
PendingSmallerNeighbours(i) == { k \in SmallerNeighbours(i) : ~Emitted(k) }

\* C30: the initialisation loop sets rem[i] to the number of eps-neighbours
\* of i with smaller id (i itself not counted); at every wave boundary rem[i]
\* of a vertex that has not emitted is the number of its smaller neighbours
\* that have not emitted; an emitted vertex has rem[i] = -1; and rem[i] is
\* never below -1.
C30_RemCountsPendingSmaller ==
    \A i \in Vertex :
        /\ remainingSmallerFinalsVec[i] >= -1
        /\ (phase = "init" /\ i \in initDone) =>
               remainingSmallerFinalsVec[i] = Cardinality(SmallerNeighbours(i))
        /\ (AtWaveBoundary /\ ~Emitted(i)) =>
               remainingSmallerFinalsVec[i] = Cardinality(PendingSmallerNeighbours(i))

\* C30 witness: at a wave boundary after the first wave a vertex still waits
\* for a smaller neighbour while another smaller neighbour has emitted.
C30_Witness ==
    /\ AtWaveBoundary
    /\ numIterations >= 1
    /\ \E i \in Vertex :
          /\ remainingSmallerFinalsVec[i] >= 1
          /\ remainingSmallerFinalsVec[i] < Cardinality(SmallerNeighbours(i))

\* ---------------------------------------------------------------- C31
\* Positions of a thread inside the body of the parallel-for of a wave.
WaveBodyPcs == {"for", "dec", "cent", "guard", "load", "cas", "flag", "faa"}

\* Some thread holds a true in its private copy, or the shared flag is true.
SomeTrueSet == should_continue \/ \E t \in Thread : sc[t]

\* The step executes the block of the single region (line 104).
SingleBlockStep == numIterations' # numIterations

\* Thread t evaluates the condition of the while loop (line 95).
WhileReadStep(t) == pc[t] = "while" /\ pc'[t] # "while"

\* C31: in every wave the reset of should_continue by the single thread comes
\* before any thread runs an iteration of the wave body; a thread reads the
\* OR-reduced flag only after the closing barrier of the wave, when every
\* thread has combined its copy; all threads read the same value, so they
\* leave the while loop in the same iteration and none is left at a barrier
\* (some step is always possible); and a true set by a thread in a wave is
\* not lost before it is read.
C31_FlagOrderedAroundWave ==
    /\ [](phase = "wave" =>
            /\ \A t \in Thread :
                 pc[t] \in WaveBodyPcs =>
                    /\ singleDone
                    /\ \A u \in Thread : pc[u] \in WaveBodyPcs \cup {"barrier3"}
            /\ \A t, u \in Thread :
                 pc[t] = "exited" => pc[u] \in {"while", "exited"}
            /\ ENABLED WaveStep)
    /\ [][/\ SingleBlockStep =>
                /\ \A u \in Thread : pc[u] = "single"
                /\ ~should_continue'
          /\ \A t \in Thread :
                WhileReadStep(t) =>
                   /\ \A u \in Thread : pc[u] \in {"while", "barrier1", "exited"}
                   /\ \A u \in Thread : ~sc[u]
                   /\ pc'[t] = (IF should_continue THEN "barrier1" ELSE "exited")
                   /\ \A u \in Thread :
                        pc[u] = "barrier1" => should_continue
          /\ (phase = "wave" /\ SomeTrueSet /\ ~SingleBlockStep) => SomeTrueSet']_vars

\* C31 witness: every thread has left the while loop together, after a wave
\* in which a thread set the flag and a second wave that read it.
C31_Witness ==
    /\ phase = "wave"
    /\ \A t \in Thread : pc[t] = "exited"
    /\ numIterations >= 2

\* ---------------------------------------------------------------- C32
\* Thread t is examining a bigger neighbour of its source: between the read
\* of the claim guard and the decrement of the neighbour's counter.
ExaminesNeighbour(t) ==
    phase = "wave" /\ pc[t] \in {"guard", "load", "cas", "flag", "faa"}

\* C32: while an active source examines a bigger neighbour j, rem[j] >= 1
\* (the source's own decrement of rem[j] is still to come); so the guard
\* rem[j] > 0 always sends a centroid source to the claim attempt, a centroid
\* source reaches the should_continue test of a neighbour only through a claim
\* attempt on it, the test rem[j] >= 1 always sets the flag, and at the end of
\* a wave should_continue is true exactly when a vertex that emitted in the
\* wave has a non-empty list of bigger neighbours.
C32_GuardsNeverFalse ==
    /\ [](\A t \in Thread :
            ExaminesNeighbour(t) => remainingSmallerFinalsVec[biggerNeighborIdx(t)] >= 1)
    /\ [](WaveEnded =>
            (should_continue <=> \E i \in waveSources : Len(pid2nnBigger[i]) > 0))
    /\ [][\A t \in Thread :
            /\ (pc[t] = "guard" /\ pc'[t] # "guard") => pc'[t] = "load"
            /\ (pc[t] # "flag" /\ pc'[t] = "flag" /\ isCentroid'[t])
                    => pc[t] \in {"load", "cas"}
            /\ (pc[t] = "flag" /\ pc'[t] # "flag") => sc'[t]]_vars

\* C32 witness: a wave has ended in which one vertex with bigger neighbours
\* and one without have emitted, and the flag is set.
C32_Witness ==
    /\ WaveEnded
    /\ should_continue
    /\ \E i, j \in waveSources :
          Len(pid2nnBigger[i]) > 0 /\ Len(pid2nnBigger[j]) = 0

\* ---------------------------------------------------------------- C33
\* Sum of the per-thread counters of threads 0 .. t (before the scan).
RECURSIVE DiscoveredUpTo(_)
DiscoveredUpTo(t) ==
    IF t < 0 THEN 0
    ELSE num_discovered_centroids[t * ints_per_cache_line] + DiscoveredUpTo(t - 1)

\* Vertex i has emitted and its source has passed the increment of line 234.
PassedCount(i) ==
    /\ Emitted(i)
    /\ \A t \in Thread : ~(pc[t] = "cent" /\ cur[t] = i)

\* C33: in merge_vertices_forward_async the per-thread counters sum, at every
\* moment of the wave loop, to the number of centroids among the vertices
\* that have passed the increment, so when the loop has exited they sum to
\* the number of vertices i with parent[i] = i; the last element of the
\* exclusive prefix sum, the size of new_vertices and the size of the
\* member-count array all equal the number of clusters.
C33_CountersSumToCentroids ==
    version = 2 =>
        /\ phase = "wave" =>
              DiscoveredUpTo(NumThreads - 1)
                  = Cardinality({ i \in Centroids : PassedCount(i) })
        /\ phase = "scan" =>
              DiscoveredUpTo(NumThreads - 1) = Cardinality(Centroids)
        /\ phase \in {"assign", "post"} =>
              /\ num_discovered_centroids[NumThreads * ints_per_cache_line]
                     = Cardinality(Centroids)
              /\ Len(new_vertices) = Cardinality(Centroids)
        /\ phase = "post" =>
              Len(num_cluster_members_vec) = Cardinality(Centroids)

\* C33 witness: the scan has run on counters to which both threads have
\* contributed, and the mesh has a follower.
C33_Witness ==
    /\ version = 2
    /\ phase = "assign"
    /\ \A t \in Thread :
          num_discovered_centroids[(t + 1) * ints_per_cache_line]
              > num_discovered_centroids[t * ints_per_cache_line]
    /\ Centroids # Vertex

\* ---------------------------------------------------------------- C38
\* C38: in merge_vertices_forward_async the chunk size num_clusters /
\* num_threads / 2 handed to the dynamic schedule of the triangle loop is at
\* least 1.
C38_ChunkAtLeastOne ==
    (version = 2 /\ phase = "post") => chunk_size >= 1

\* What the code computes: the chunk size is at least 1 exactly when there are
\* at least two clusters per thread.
C38_ChunkIsFlooredQuotient ==
    (version = 2 /\ phase = "post") =>
        /\ num_clusters = Cardinality(Centroids)
        /\ (chunk_size >= 1 <=> num_clusters >= 2 * NumThreads)

\* ---------------------------------------------------------------- C34
\* The positions the follower pass of lines 293-303 ends with when it goes
\* on alone from index i with positions nv and member counts cnt.
RECURSIVE follower_pass(_, _, _)
follower_pass(nv, cnt, i) ==
    IF i >= NumVertices THEN nv
    ELSE IF IsCentroidId(i) \/ ~InRange(nv, pid2ccid[cp_vec[i]])
    THEN follower_pass(nv, cnt, i + 1)
    ELSE LET ccid == pid2ccid[cp_vec[i]]
         IN  follower_pass(
                 SetAt(nv, ccid,
                       RunningMeanAsync(At(nv, ccid), At(cnt, ccid), At(vertices_, i))),
                 SetAt(cnt, ccid, At(cnt, ccid) + 1),
                 i + 1)

\* The positions and the triangles the call will end with, as the current
\* state determines them when each pass is finished on its own.
FinalPositions == follower_pass(new_vertices, num_cluster_members_vec, loopIdx)
FinalTriangles ==
    [k \in Triangle |->
        IF k \in triDone THEN triangles_[k]
        ELSE << NewTriangleId(triangles_[k][1]), NewTriangleId(triangles_[k][2]),
                NewTriangleId(triangles_[k][3]) >>]

\* C34: in merge_vertices_forward_async the follower pass is one serial loop
\* (a single region), and triangles may be rewritten while it runs.  A step
\* of the follower pass leaves the triangles, pid2ccid and the parents alone;
\* a rewrite of a triangle leaves the positions and member counts alone; so
\* the positions and triangles the call will end with are the same after
\* every step of either pass, and the call returns them.
C34_PassesDoNotInterfere ==
    [][(version = 2 /\ phase = "post") =>
          /\ loopIdx' \in {loopIdx, loopIdx + 1}
          /\ loopIdx' # loopIdx =>
                /\ triangles_' = triangles_
                /\ triDone' = triDone
                /\ pid2ccid' = pid2ccid
                /\ cp_vec' = cp_vec
          /\ triDone' # triDone =>
                /\ new_vertices' = new_vertices
                /\ num_cluster_members_vec' = num_cluster_members_vec
                /\ pid2ccid' = pid2ccid
                /\ cp_vec' = cp_vec
          /\ phase' = "post" =>
                /\ FinalPositions' = FinalPositions
                /\ FinalTriangles' = FinalTriangles
          /\ phase' = "done" =>
                /\ vertices_' = FinalPositions
                /\ triangles_' = FinalTriangles]_vars

\* C34 witness: both passes are under way: a follower has been aggregated,
\* another vertex is still to come, one triangle is rewritten and one is not.
C34_Witness ==
    /\ version = 2
    /\ phase = "post"
    /\ ~ub
    /\ 0 < loopIdx /\ loopIdx < NumVertices
    /\ \E i \in 0 .. (loopIdx - 1) : ~IsCentroidId(i)
    /\ triDone # {} /\ triDone # Triangle

\* ---------------------------------------------------------------- C35
\* Number of centroids of original id below i.
CentroidsBelow(i) == Cardinality({ c \in Centroids : c < i })

\* C35: in reduce, called by merge_vertices_forward, the centroids get the
\* new ids 0..K-1 in ascending order of their original id, and when the loop
\* comes to a follower i, its centroid parent[i] has a smaller id, has been
\* given its new id, and new_vertices holds an element at that id; no access
\* goes past the end of new_vertices.
C35_ReduceAscending ==
    (version = 1 /\ phase = "reduce") =>
        /\ ~ub
        /\ n_clusters = CentroidsBelow(loopIdx)
        /\ Len(new_vertices) = n_clusters
        /\ \A c \in Centroids : c < loopIdx => pid2ccid[c] = CentroidsBelow(c)
        /\ (loopIdx < NumVertices /\ ~IsCentroidId(loopIdx)) =>
              /\ cp_vec[loopIdx] < loopIdx
              /\ IsCentroidId(cp_vec[loopIdx])
              /\ InRange(new_vertices, pid2ccid[cp_vec[loopIdx]])

\* C35 witness: the loop of reduce is at a follower whose centroid is the
\* second centroid of the mesh.
C35_Witness ==
    /\ version = 1
    /\ phase = "reduce"
    /\ loopIdx < NumVertices
    /\ ~IsCentroidId(loopIdx)
    /\ pid2ccid[cp_vec[loopIdx]] = 1

\* ---------------------------------------------------------------- C36
\* Number of calls of find_epsilon_binary_search that evaluated their midpoint.
BinaryEvals == Cardinality({ k \in DOMAIN evals : evals[k].by = "binary" })

\* Width of the bracket the binary search was started with: one step of the
\* linear search, or the whole searched range when the linear search ran out.
InitialRange ==
    IF epsilon >= max_epsilon_searched THEN max_epsilon_searched
    ELSE EPSILON_STEP_SIZE

\* Number of halvings that bring a range of width r down to EPSILON_MIN_RANGE.
RECURSIVE Halvings(_)
Halvings(r) == IF r <= EPSILON_MIN_RANGE THEN 0 ELSE 1 + Halvings(r - r \div 2)

RECURSIVE Pow2(_)
Pow2(n) == IF n = 0 THEN 1 ELSE 2 * Pow2(n - 1)

\* The step is a call of find_epsilon_binary_search that calls itself.
BinaryRecurses == dpc = "binary" /\ dpc' = "binary"

\* C36: find_epsilon_binary_search terminates whatever rates the evaluations
\* return: a call that calls itself passes a bracket of half the width, the
\* number of evaluating calls never exceeds the number of halvings that
\* bring the initial width down to EPSILON_MIN_RANGE, every call evaluates
\* the rate at most once, and a call that does not call itself returns its
\* midpoint.
C36_BinarySearchTerminates ==
    /\ [](dpc = "binary" =>
            /\ boundary_data.epsilon_min_boundary <= boundary_data.epsilon_max_boundary
            /\ range * Pow2(BinaryEvals) = InitialRange)
    /\ [](BinaryEvals <= Halvings(InitialRange))
    /\ [][dpc = "binary" =>
            /\ Len(evals') <= Len(evals) + 1
            /\ BinaryRecurses =>
                  /\ Len(evals') = Len(evals) + 1
                  /\ range > EPSILON_MIN_RANGE
                  /\ 2 * range' = range
            /\ ~BinaryRecurses =>
                  /\ dpc' = "exited"
                  /\ output' = Append(output, epsilon_midpoint)]_vars

\* C36 witness: the search has ended after two or more evaluating calls, on
\* rates that are not monotone in eps.
C36_Witness ==
    /\ dpc = "exited"
    /\ program = "find-eps"
    /\ BinaryEvals >= 2
    /\ \E j, k \in DOMAIN evals :
          /\ evals[j].epsilon < evals[k].epsilon
          /\ RateLess(evals[k].rate, evals[j].rate)

\* ---------------------------------------------------------------- C37
\* The bracket find_epsilon_binary_search was first called with, read from
\* the history: the bracket of the last linear step, or, when the linear
\* search ran past its cap, the bracket of line 199.
LinearEvals == Cardinality({ k \in DOMAIN evals : evals[k].by = "linear" })
InitialBracket ==
    IF epsilon >= max_epsilon_searched
    THEN BinarySearchVals(0, max_epsilon_searched, ZeroRate, [num |-> 100, den |-> 1])
    ELSE BinarySearchVals((LinearEvals - 1) * EPSILON_STEP_SIZE,
                          LinearEvals * EPSILON_STEP_SIZE,
                          IF LinearEvals = 1 THEN ZeroRate
                          ELSE evals[LinearEvals - 1].rate,
                          evals[LinearEvals].rate)

\* rate_lo <= r <= rate_hi and eps_lo < eps_hi
BracketsTarget(b) ==
    /\ RateLeq(b.reduction_rate_on_min_boundary, target_reduction_rate)
    /\ RateLeq(target_reduction_rate, b.reduction_rate_on_max_boundary)
    /\ b.epsilon_min_boundary < b.epsilon_max_boundary

\* Bracket b lies inside bracket c.
NestedIn(b, c) ==
    /\ c.epsilon_min_boundary <= b.epsilon_min_boundary
    /\ b.epsilon_max_boundary <= c.epsilon_max_boundary

\* The binary search has been called (and may have returned).
BinarySearchCalled ==
    /\ program = "find-eps"
    /\ dpc = "binary" \/ (dpc = "exited" /\ output # << >>)

\* Every rate evaluated by the binary search so far is a number.
NoNaNRate == \A k \in DOMAIN evals : evals[k].by = "binary" => ~IsNaN(evals[k].rate)

\* C37 as stated: if the first bracket has rate_lo <= r <= rate_hi and
\* eps_lo < eps_hi, so has the bracket of every recursive call, each bracket
\* lies inside the one before, and the returned eps lies inside the first
\* interval.
C37_BracketKept ==
    /\ [](BinarySearchCalled /\ BracketsTarget(InitialBracket) =>
            /\ dpc = "binary" =>
                  /\ BracketsTarget(boundary_data)
                  /\ NestedIn(boundary_data, InitialBracket)
            /\ dpc = "exited" =>
                  /\ InitialBracket.epsilon_min_boundary <= output[Len(output)]
                  /\ output[Len(output)] <= InitialBracket.epsilon_max_boundary)
    /\ [][BinaryRecurses => NestedIn(boundary_data', boundary_data)]_vars

\* C37 for the searches in which every evaluated rate is a number.
C37_BracketKeptUnlessNaN ==
    /\ [](BinarySearchCalled /\ BracketsTarget(InitialBracket) =>
            /\ (dpc = "binary" /\ NoNaNRate) =>
                  BracketsTarget(boundary_data)
            /\ dpc = "binary" =>
                  /\ boundary_data.epsilon_min_boundary < boundary_data.epsilon_max_boundary
                  /\ NestedIn(boundary_data, InitialBracket)
            /\ dpc = "exited" =>
                  /\ InitialBracket.epsilon_min_boundary <= output[Len(output)]
                  /\ output[Len(output)] <= InitialBracket.epsilon_max_boundary)
    /\ [][BinaryRecurses => NestedIn(boundary_data', boundary_data)]_vars

\* ---------------------------------------------------------------- C39
\* TriangleMesh::MergeCloseVertices, the sequential reference: the loop of
\* lines 109-129 from vertex vidx on.  mapping is new_vert_mapping (-1: no
\* entry), n_new the size of new_vertices; nbs[vidx] holds the vertices
\* within eps of vidx, vidx included.
NoEntry == 0 - 1
RECURSIVE merge_close_from(_, _, _)
merge_close_from(vidx, mapping, n_new) ==
    IF vidx >= NumVertices THEN [new_vert_mapping |-> mapping, count |-> n_new]
    ELSE IF mapping[vidx] # NoEntry THEN merge_close_from(vidx + 1, mapping, n_new)
    ELSE merge_close_from(
             vidx + 1,
             [nb \in Vertex |->
                 IF nb = vidx \/ (Neighbour(vidx, nb) /\ mapping[nb] = NoEntry)
                 THEN n_new ELSE mapping[nb]],
             n_new + 1)

\* The map, the vertex count and the triangles MergeCloseVertices leaves.
MergeCloseVertices ==
    LET r == merge_close_from(0, [i \in Vertex |-> NoEntry], 0)
    IN  [new_vert_mapping |-> r.new_vert_mapping,
         count |-> r.count,
         triangles_ |->
             [k \in Triangle |->
                 << r.new_vert_mapping[InputTriangles[k][1]],
                    r.new_vert_mapping[InputTriangles[k][2]],
                    r.new_vert_mapping[InputTriangles[k][3]] >>]]

\* C39: merge_vertices_forward leaves the map from original to new vertex
\* id, the number of new vertices and the triangles that the sequential
\* MergeCloseVertices leaves on the same mesh and eps, in every interleaving.
C39_ForwardEqualsSequential ==
    version = 1 =>
        /\ phase \in {"rewrite", "done"} =>
              /\ pid2ccid = MergeCloseVertices.new_vert_mapping
              /\ n_clusters = MergeCloseVertices.count
        /\ phase = "done" =>
              /\ Len(vertices_) = MergeCloseVertices.count
              /\ triangles_ = MergeCloseVertices.triangles_

\* C39 witness: merge_vertices_forward has returned on a mesh in which a
\* vertex in range of two centroids went to the smaller one and the third
\* vertex leads a cluster of its own.
C39_Witness ==
    /\ version = 1
    /\ phase = "done"
    /\ Cardinality(Centroids) = 2
    /\ \E j \in Vertex \ Centroids, c \in Centroids :
          Neighbour(c, j) /\ cp_vec[j] # c

\* ---------------------------------------------------------------- C40
\* C40: when the wave loop has exited the centroids are a maximal independent
\* set of the eps-graph: no two different centroids are within eps of each
\* other, and every follower has a centroid among its smaller neighbours.
C40_CentroidsMaximalIndependent ==
    WaveLoopExited =>
        /\ \A c, d \in Centroids : c # d => ~Neighbour(c, d)
        /\ \A j \in Vertex \ Centroids :
              \E c \in Centroids : c \in SmallerNeighbours(j)

\* C40 witness: the wave loop has exited with two centroids and a follower
\* in range of both of them.
C40_Witness ==
    /\ phase \in {"reduce", "scan"}
    /\ Cardinality(Centroids) = 2
    /\ \E j \in Vertex \ Centroids : \A c \in Centroids : Neighbour(c, j)

=============================================================================
